---- MODULE Spec2Model ----
(***************************************************************************)
(* State-machine model of the shared-texture plane and the input fan-out   *)
(* plane of crates/gpui:                                                    *)
(*   - LockFreeRingBuffer and EventBus (platform/windows/event_bus.rs),     *)
(*     at the granularity of their atomic loads, stores and slot locks;     *)
(*   - the external texture registry of DirectXAtlas and MetalAtlas.        *)
(* Atomics are modelled sequentially consistent; every behaviour of the     *)
(* model is a behaviour of the code.                                        *)
(***************************************************************************)
EXTENDS Integers, Sequences, FiniteSets, TLC

VARIABLES
    rings,      \* heap of LockFreeRingBuffer objects: ring id -> ring
    th,         \* per-thread position and locals
    obs,        \* observer of the ring harness: what try_push / try_pop returned
    snap,       \* observer of sequential use: the ring as the current call found it
    current_buffer, \* EventBus.current_buffer: the id of the installed ring
    lock,       \* the RwLock around current_buffer: the thread holding it for writing
    sequence,   \* EventBus.sequence
    stats,      \* EventBusStats
    bus_obs,    \* observer of the bus: the push calls made, the envelopes delivered
    backend,    \* which atlas the registry belongs to: "D3D11" or "Metal"
    external_textures,          \* AtlasState.external_textures: id -> entry
    next_external_texture_id,   \* AtlasState.next_external_texture_id
    gpu,        \* the pixel contents of every live GPU resource
    slice,      \* the producer's side: the resource its mapped slice points into
    tex_ret,    \* the last registry call and what it returned
    cycle,      \* observer of the producer's map / write / unmap / swap cycle
    issued,     \* observer: the ids register has returned, in order
    mirror,     \* a MetalAtlas registry given the same calls as the DirectXAtlas one
    proc,       \* InputProcessorThread, its worker thread and its owner
    wq,         \* WindowEventQueue instances and the last call on one
    integ,      \* event_bus_integration: INPUT_PROCESSOR, WINDOW_SENDERS, receivers
    canvas,     \* a GpuCanvasSource and the calls made on it
    atlas,      \* the tile side of an atlas: tiles_by_key and the two texture lists
    dmabuf      \* the last export_texture_as_dmabuf call and what it returned

ringVars == <<rings, th>>
harnessVars == <<obs, snap>>
busVars == <<current_buffer, lock, sequence, stats, bus_obs>>
texVars == <<backend, external_textures, next_external_texture_id, gpu, slice,
             tex_ret, cycle, issued, mirror>>
procVars == <<proc>>
gfxVars == <<atlas, dmabuf>>
winVars == <<wq, integ, canvas, gfxVars>>
vars == <<rings, th, obs, snap, current_buffer, lock, sequence, stats, bus_obs,
          backend, external_textures, next_external_texture_id, gpu, slice,
          tex_ret, cycle, issued, mirror, proc, wq, integ, canvas, atlas, dmabuf>>

----------------------------------------------------------------------------
(* Bounds of the model *)

\* width of usize in the model (the counters stay far below 2^USIZE_BITS)
USIZE_BITS == 16
\* log2 of the capacity of the ring the ring harness works on
RingCapLog2 == 1
\* number of try_push calls the ring harness makes (values 1..MaxPushes)
MaxPushes == 4
\* number of EventBus::push calls one thread makes on its own (inputs 1..MaxBusPushes)
MaxBusPushes == 5
\* number of EventBus::push calls concurrent threads make together
MaxConcurrentPushes == 3
\* largest max_batch_size given to try_pop_batch
MaxBatch == 2
\* log2 of the bus's initial and maximum ring capacity, scaled down from
\* 8192 = 2^13 and 1_048_576 = 2^20
InitialCapLog2 == 0
MaxCapLog2 == 2
\* number of external textures a registry registers (ids 1..MaxTextures)
MaxTextures == 2

----------------------------------------------------------------------------
(* Option<T> *)

None == <<>>
Some(x) == <<x>>
IsSome(o) == o # <<>>
Unwrap(o) == o[1]

(* usize arithmetic.  The counters of the model stay far below the modulus, *)
(* so only a subtraction can wrap.                                          *)
USIZE_MOD == 2 ^ USIZE_BITS
WrappingSub(a, b) == (a - b) % USIZE_MOD
WrappingAdd(a, b) == (a + b) % USIZE_MOD

RECURSIVE BitAnd(_, _)
BitAnd(a, b) ==
    IF a = 0 \/ b = 0 THEN 0
    ELSE (a % 2) * (b % 2) + 2 * BitAnd(a \div 2, b \div 2)

----------------------------------------------------------------------------
(* LockFreeRingBuffer<T> *)

\* LockFreeRingBuffer::new
NewRing(capacity) ==
    [ buffer   |-> [i \in 0..(capacity - 1) |-> None],
      capacity |-> capacity,
      mask     |-> capacity - 1,
      head     |-> 0,
      tail     |-> 0 ]

\* LockFreeRingBuffer::len
RingLen(r) == WrappingSub(r.tail, r.head)

\* LockFreeRingBuffer::is_empty
RingIsEmpty(r) == RingLen(r) = 0

\* the locals of a thread that is in no call
IdleThread ==
    [ pc |-> "idle", ret |-> "idle", ring |-> 0, ev |-> None,
      tail |-> 0, head |-> 0, res |-> None,
      \* locals of EventBus::push / expand_and_push / try_pop_batch
      event |-> None, buffer |-> 0, old_buffer |-> 0, new_buffer |-> 0,
      events |-> <<>>, n |-> 0 ]

\* a call of try_push(ev) on ring r that returns to position ret
EnterTryPush(l, r, ev, ret) ==
    [l EXCEPT !.pc = "try_push_load_tail", !.ring = r, !.ev = Some(ev),
              !.ret = ret, !.res = None]

\* a call of try_pop() on ring r that returns to position ret
EnterTryPop(l, r, ret) ==
    [l EXCEPT !.pc = "try_pop_load_head", !.ring = r, !.ev = None,
              !.ret = ret, !.res = None]

\* return of try_push / try_pop with result v: the callee's locals die
ReturnRing(l, v) ==
    [l EXCEPT !.pc = l.ret, !.ret = "idle", !.ring = 0, !.ev = None,
              !.tail = 0, !.head = 0, !.res = Some(v)]

\* a full check that lets one push too many through
IsFullOffByOne(tail, head, capacity) == WrappingSub(tail, head) > capacity

\* try_push: if tail.wrapping_sub(head) >= self.capacity { return false; }
IsFull(tail, head, capacity) == WrappingSub(tail, head) >= capacity

\* an empty check that lets a pop of the empty ring through
IsEmptyOffByOne(head, tail) == head > tail

\* try_pop: if head >= tail { return None; }
IsEmpty(head, tail) == head >= tail

\* try_push / try_pop: let slot_index = counter & self.mask
SlotIndex(counter, mask) == BitAnd(counter, mask)

\* try_push: let tail = self.tail.0.load(Relaxed)
TryPushLoadTail(t) ==
    /\ th[t].pc = "try_push_load_tail"
    /\ th' = [th EXCEPT ![t].tail = rings[th[t].ring].tail,
                        ![t].pc = "try_push_load_head"]
    /\ UNCHANGED rings

\* try_push: let head = self.head.0.load(Acquire); the full check
TryPushLoadHead(t) ==
    /\ th[t].pc = "try_push_load_head"
    /\ LET r == rings[th[t].ring]
           head == r.head
       IN  IF IsFull(th[t].tail, head, r.capacity)
           THEN th' = [th EXCEPT ![t] = ReturnRing(th[t], FALSE)]
           ELSE th' = [th EXCEPT ![t].head = head, ![t].pc = "try_push_write"]
    /\ UNCHANGED rings

\* try_push: *self.buffer[tail & mask].write() = Some(event)
TryPushWrite(t) ==
    /\ th[t].pc = "try_push_write"
    /\ LET r == rings[th[t].ring]
           slot_index == SlotIndex(th[t].tail, r.mask)
       IN  rings' = [rings EXCEPT ![th[t].ring].buffer[slot_index] = th[t].ev]
    /\ th' = [th EXCEPT ![t].pc = "try_push_store_tail"]

\* try_push: self.tail.0.store(tail.wrapping_add(1), Release); true
TryPushStoreTail(t) ==
    /\ th[t].pc = "try_push_store_tail"
    /\ rings' = [rings EXCEPT ![th[t].ring].tail = WrappingAdd(th[t].tail, 1)]
    /\ th' = [th EXCEPT ![t] = ReturnRing(th[t], TRUE)]

\* try_pop: let head = self.head.0.load(Relaxed)
TryPopLoadHead(t) ==
    /\ th[t].pc = "try_pop_load_head"
    /\ th' = [th EXCEPT ![t].head = rings[th[t].ring].head,
                        ![t].pc = "try_pop_load_tail"]
    /\ UNCHANGED rings

\* try_pop: let tail = self.tail.0.load(Acquire); the empty check
TryPopLoadTail(t) ==
    /\ th[t].pc = "try_pop_load_tail"
    /\ LET tail == rings[th[t].ring].tail
       IN  IF IsEmpty(th[t].head, tail)
           THEN th' = [th EXCEPT ![t] = ReturnRing(th[t], None)]
           ELSE th' = [th EXCEPT ![t].tail = tail, ![t].pc = "try_pop_take"]
    /\ UNCHANGED rings

\* try_pop: let event = self.buffer[head & mask].write().take()
TryPopTake(t) ==
    /\ th[t].pc = "try_pop_take"
    /\ LET r == rings[th[t].ring]
           slot_index == SlotIndex(th[t].head, r.mask)
       IN  /\ rings' = [rings EXCEPT ![th[t].ring].buffer[slot_index] = None]
           /\ th' = [th EXCEPT ![t].ev = r.buffer[slot_index],
                               ![t].pc = "try_pop_store_head"]

\* try_pop: self.head.0.store(head.wrapping_add(1), Release); event
TryPopStoreHead(t) ==
    /\ th[t].pc = "try_pop_store_head"
    /\ rings' = [rings EXCEPT ![th[t].ring].head = WrappingAdd(th[t].head, 1)]
    /\ th' = [th EXCEPT ![t] = ReturnRing(th[t], th[t].ev)]

----------------------------------------------------------------------------
(* The ring harness: threads calling try_push and try_pop on one ring, as   *)
(* the tests of event_bus.rs do.  obs records what the calls returned.      *)

RingCapacity == 2 ^ RingCapLog2
TheRing == 1

\* number of slots of ring r that hold a value
Occupied(r) == Cardinality({i \in DOMAIN r.buffer : IsSome(r.buffer[i])})

NoCall == [ call |-> "none", before |-> NewRing(RingCapacity),
            prev |-> [call |-> "none", full |-> FALSE] ]

Producers == {"p1", "p2"}
Consumers == {"c1", "c2"}
RingThreads == Producers \cup Consumers \cup {"s"}

NoObs ==
    [ calls  |-> 0,       \* try_push calls made
      pushed |-> <<>>,    \* values whose try_push returned true
      popped |-> <<>> ]   \* values try_pop returned

\* no atlas
NoTex ==
    /\ backend = "none"
    /\ external_textures = <<>>
    /\ next_external_texture_id = 0
    /\ gpu = <<>>
    /\ slice = <<>>
    /\ tex_ret = <<>>
    /\ cycle = <<>>
    /\ issued = <<>>
    /\ mirror = <<>>

\* no input processor
NoProc == proc = <<>>

\* no tile atlas and no exporter
NoGfx == atlas = <<>> /\ dmabuf = <<>>

NoWin == wq = <<>> /\ integ = <<>> /\ canvas = <<>> /\ NoGfx

\* no bus: the ring is used on its own
NoBus ==
    /\ current_buffer = 0
    /\ lock = None
    /\ sequence = 0
    /\ stats = [ total_events_pushed |-> 0, total_events_popped |-> 0,
                 buffer_expansions |-> 0, push_failures |-> 0,
                 max_buffer_size |-> 0 ]
    /\ bus_obs = [ inputs |-> 0, returned |-> 0, delivered |-> <<>>,
                   pushed_before_pop |-> 0 - 1 ]

InitRing ==
    /\ rings = <<NewRing(RingCapacity)>>
    /\ th = [t \in RingThreads |-> IdleThread]
    /\ obs = NoObs
    /\ snap = NoCall
    /\ NoBus
    /\ NoTex
    /\ NoProc
    /\ NoWin

\* a thread calls buffer.try_push(v), v the next unused value
CallTryPush(t) ==
    /\ th[t].pc = "idle"
    /\ obs.calls < MaxPushes
    /\ th' = [th EXCEPT ![t] = EnterTryPush(th[t], TheRing, obs.calls + 1, "idle")]
    /\ obs' = [obs EXCEPT !.calls = obs.calls + 1]
    /\ UNCHANGED rings

\* a thread calls buffer.try_pop()
CallTryPop(t) ==
    /\ th[t].pc = "idle"
    /\ th' = [th EXCEPT ![t] = EnterTryPop(th[t], TheRing, "idle")]
    /\ UNCHANGED <<rings, obs>>

\* one step of a try_push call; its return value is observed
PushStep(t) ==
    \/ CallTryPush(t)
    \/ TryPushLoadTail(t) /\ UNCHANGED obs
    \/ TryPushLoadHead(t) /\ UNCHANGED obs
    \/ TryPushWrite(t) /\ UNCHANGED obs
    \/ /\ TryPushStoreTail(t)
       /\ obs' = [obs EXCEPT !.pushed = Append(obs.pushed, Unwrap(th[t].ev))]

\* one step of a try_pop call; its return value is observed
PopStep(t) ==
    \/ CallTryPop(t)
    \/ TryPopLoadHead(t) /\ UNCHANGED obs
    \/ TryPopLoadTail(t) /\ UNCHANGED obs
    \/ TryPopTake(t) /\ UNCHANGED obs
    \/ /\ TryPopStoreHead(t)
       /\ obs' = IF IsSome(th[t].ev)
                 THEN [obs EXCEPT !.popped = Append(obs.popped, Unwrap(th[t].ev))]
                 ELSE obs

\* any number of concurrent producers and consumers
NextRing ==
    /\ \/ \E t \in Producers : PushStep(t)
       \/ \E t \in Consumers : PopStep(t)
    /\ UNCHANGED <<snap, busVars, texVars, procVars, winVars>>

SpecRing == InitRing /\ [][NextRing]_vars

\* one producer thread and one consumer thread
NextRingSPSC ==
    /\ PushStep("p1") \/ PopStep("c1")
    /\ UNCHANGED <<snap, busVars, texVars, procVars, winVars>>

SpecRingSPSC == InitRing /\ [][NextRingSPSC]_vars

\* sequential use: one thread makes every call
\* when the thread makes a call, snap keeps the ring as the call finds it
\* and what the call before it was
SnapCall(t) ==
    IF th[t].pc = "idle"
    THEN [ call   |-> IF th'[t].pc = "try_push_load_tail" THEN "try_push" ELSE "try_pop",
           before |-> rings[TheRing],
           prev   |-> [ call |-> snap.call,
                        full |-> Occupied(snap.before) = RingCapacity ] ]
    ELSE snap

NextRingSeq ==
    /\ PushStep("s") \/ PopStep("s")
    /\ snap' = SnapCall("s")
    /\ UNCHANGED <<busVars, texVars, procVars, winVars>>

SpecRingSeq == InitRing /\ [][NextRingSeq]_vars

Spec == SpecRing

----------------------------------------------------------------------------
(* EventBus *)

INITIAL_BUFFER_CAPACITY == 2 ^ InitialCapLog2
MAX_BUFFER_CAPACITY == 2 ^ MaxCapLog2

BusPushers == {"p1", "p2"}
BusConsumers == {"c1"}

\* EventBusStats::default
NoStats ==
    [ total_events_pushed |-> 0, total_events_popped |-> 0,
      buffer_expansions |-> 0, push_failures |-> 0, max_buffer_size |-> 0 ]

NoBusObs ==
    [ inputs    |-> 0,      \* push calls made: their inputs are 1..inputs
      returned  |-> 0,      \* push calls that returned
      delivered |-> <<>>,   \* the envelopes try_pop_batch returned, in return order
      pushed_before_pop |-> 0 - 1 ] \* push calls returned when try_pop_batch was first called

\* EventBus::new
InitBus ==
    /\ rings = <<NewRing(INITIAL_BUFFER_CAPACITY)>>
    /\ current_buffer = 1
    /\ lock = None
    /\ sequence = 0
    /\ stats = NoStats
    /\ bus_obs = NoBusObs
    /\ th = [t \in RingThreads |-> IdleThread]
    /\ obs = NoObs
    /\ snap = NoCall
    /\ NoTex
    /\ NoProc
    /\ NoWin

\* try_push on a ring no other thread has a reference to
CanPush(r) == ~IsFull(r.tail, r.head, r.capacity)
RingPushed(r, ev) ==
    [r EXCEPT !.buffer[SlotIndex(r.tail, r.mask)] = Some(ev),
              !.tail = WrappingAdd(r.tail, 1)]

\* a fetch_add that returns the value after the addition
FetchAddNew(counter) == counter + 1

\* push: self.sequence.fetch_add(1, Relaxed) returns the previous value
FetchAdd(counter) == counter

\* expand_and_push: a new capacity that does not grow
NewCapacitySame(old_capacity) == old_capacity

\* an expansion that quadruples instead of doubling
NewCapacityFourfold(old_capacity) == old_capacity * 4

\* expand_and_push: let new_capacity = old_capacity * 2
NewCapacity(old_capacity) == old_capacity * 2

\* push: the sequence number is allocated and the envelope built
BusPushBegin(t, limit) ==
    /\ th[t].pc = "idle"
    /\ bus_obs.inputs < limit
    /\ LET event == [ input |-> bus_obs.inputs + 1,
                      sequence_number |-> FetchAdd(sequence) ]
       IN  th' = [th EXCEPT ![t].event = Some(event), ![t].pc = "push_read_buffer"]
    /\ sequence' = sequence + 1
    /\ bus_obs' = [bus_obs EXCEPT !.inputs = @ + 1]
    /\ UNCHANGED <<rings, current_buffer, lock, stats>>

\* push: let buffer = self.current_buffer.read().clone(); buffer.try_push(..)
BusPushReadBuffer(t) ==
    /\ th[t].pc = "push_read_buffer"
    /\ lock = None
    /\ th' = [th EXCEPT ![t] =
                EnterTryPush([th[t] EXCEPT !.buffer = current_buffer],
                             current_buffer, Unwrap(th[t].event), "push_tried")]
    /\ UNCHANGED <<rings, busVars>>

\* push: after try_push: count the event, or go on to expand_and_push
BusPushTried(t) ==
    /\ th[t].pc = "push_tried"
    /\ IF th[t].res = Some(TRUE)
       THEN /\ stats' = [stats EXCEPT !.total_events_pushed = @ + 1]
            /\ th' = [th EXCEPT ![t] = IdleThread]
            /\ bus_obs' = [bus_obs EXCEPT !.returned = @ + 1]
       ELSE /\ th' = [th EXCEPT ![t].pc = "expand_lock", ![t].res = None]
            /\ UNCHANGED <<stats, bus_obs>>
    /\ UNCHANGED <<rings, current_buffer, lock, sequence>>

\* expand_and_push: self.current_buffer.write(); old_buffer.try_push(..)
ExpandLock(t) ==
    /\ th[t].pc = "expand_lock"
    /\ lock = None
    /\ lock' = Some(t)
    /\ th' = [th EXCEPT ![t] =
                EnterTryPush([th[t] EXCEPT !.old_buffer = current_buffer],
                             current_buffer, Unwrap(th[t].event), "expand_tried")]
    /\ UNCHANGED <<rings, current_buffer, sequence, stats, bus_obs>>

\* expand_and_push: after the second try_push: done, or the overload panic,
\* or the new ring is created and the migration starts
ExpandTried(t) ==
    /\ th[t].pc = "expand_tried"
    /\ LET new_capacity == NewCapacity(rings[th[t].old_buffer].capacity)
       IN  IF th[t].res = Some(TRUE)
           THEN /\ lock' = None
                /\ stats' = [stats EXCEPT !.total_events_pushed = @ + 1]
                /\ th' = [th EXCEPT ![t] = IdleThread]
                /\ bus_obs' = [bus_obs EXCEPT !.returned = @ + 1]
                /\ UNCHANGED rings
           ELSE IF new_capacity > MAX_BUFFER_CAPACITY
           THEN /\ lock' = None
                /\ th' = [th EXCEPT ![t] = [IdleThread EXCEPT !.pc = "panicked"]]
                /\ UNCHANGED <<rings, stats, bus_obs>>
           ELSE /\ rings' = Append(rings, NewRing(new_capacity))
                /\ th' = [th EXCEPT ![t] =
                            EnterTryPop([th[t] EXCEPT !.new_buffer = Len(rings) + 1],
                                        th[t].old_buffer, "migrate_popped")]
                /\ UNCHANGED <<lock, stats, bus_obs>>
    /\ UNCHANGED <<current_buffer, sequence>>

\* expand_and_push: one turn of the migration loop; when old_buffer.try_pop()
\* returns None the new event is pushed and the new ring installed
MigratePopped(t) ==
    /\ th[t].pc = "migrate_popped"
    /\ LET new == th[t].new_buffer
           popped == Unwrap(th[t].res)
       IN  IF IsSome(popped)
           THEN IF CanPush(rings[new])
                THEN /\ rings' = [rings EXCEPT ![new] = RingPushed(@, Unwrap(popped))]
                     /\ th' = [th EXCEPT ![t] =
                                 EnterTryPop(th[t], th[t].old_buffer, "migrate_popped")]
                     /\ UNCHANGED <<current_buffer, lock, stats, bus_obs>>
                ELSE /\ lock' = None
                     /\ th' = [th EXCEPT ![t] = [IdleThread EXCEPT !.pc = "panicked"]]
                     /\ UNCHANGED <<rings, current_buffer, stats, bus_obs>>
           ELSE IF CanPush(rings[new])
                THEN /\ rings' = [rings EXCEPT ![new] = RingPushed(@, Unwrap(th[t].event))]
                     /\ current_buffer' = new
                     /\ stats' = [stats EXCEPT !.buffer_expansions = @ + 1,
                                               !.max_buffer_size = rings[new].capacity,
                                               !.total_events_pushed = @ + 1]
                     /\ lock' = None
                     /\ th' = [th EXCEPT ![t] = IdleThread]
                     /\ bus_obs' = [bus_obs EXCEPT !.returned = @ + 1]
                ELSE /\ lock' = None
                     /\ th' = [th EXCEPT ![t] = [IdleThread EXCEPT !.pc = "panicked"]]
                     /\ UNCHANGED <<rings, current_buffer, stats, bus_obs>>
    /\ UNCHANGED sequence

\* try_pop_batch(max_batch_size): the ring reference is taken, the loop starts
BatchBegin(t, max_batch_size) ==
    /\ th[t].pc = "idle"
    /\ lock = None
    /\ bus_obs' = [bus_obs EXCEPT !.pushed_before_pop =
                      IF @ = 0 - 1 THEN bus_obs.returned ELSE @]
    /\ IF max_batch_size = 0
       THEN th' = th
       ELSE th' = [th EXCEPT ![t] =
                     EnterTryPop([th[t] EXCEPT !.buffer = current_buffer,
                                               !.n = max_batch_size],
                                 current_buffer, "batch_popped")]
    /\ UNCHANGED <<rings, current_buffer, lock, sequence, stats>>

\* try_pop_batch: one turn of the loop; the batch is returned when the ring
\* gave nothing or max_batch_size events were popped
BatchPopped(t) ==
    /\ th[t].pc = "batch_popped"
    /\ LET popped == Unwrap(th[t].res)
           events == IF IsSome(popped) THEN Append(th[t].events, Unwrap(popped))
                     ELSE th[t].events
       IN  /\ stats' = IF IsSome(popped)
                       THEN [stats EXCEPT !.total_events_popped = @ + 1]
                       ELSE stats
           /\ IF IsSome(popped) /\ th[t].n > 1
              THEN /\ th' = [th EXCEPT ![t] =
                               EnterTryPop([th[t] EXCEPT !.events = events, !.n = @ - 1],
                                           th[t].buffer, "batch_popped")]
                   /\ UNCHANGED bus_obs
              ELSE /\ th' = [th EXCEPT ![t] = IdleThread]
                   /\ bus_obs' = [bus_obs EXCEPT !.delivered = @ \o events]
    /\ UNCHANGED <<rings, current_buffer, lock, sequence>>

\* EventBus::len
BusLen == RingLen(rings[current_buffer])

\* a step of try_push or try_pop made inside a bus call
RingStep(t) ==
    /\ \/ TryPushLoadTail(t)
       \/ TryPushLoadHead(t)
       \/ TryPushWrite(t)
       \/ TryPushStoreTail(t)
       \/ TryPopLoadHead(t)
       \/ TryPopLoadTail(t)
       \/ TryPopTake(t)
       \/ TryPopStoreHead(t)
    /\ UNCHANGED busVars

\* one step of EventBus::push
BusPushStep(t, limit) ==
    \/ BusPushBegin(t, limit)
    \/ BusPushReadBuffer(t)
    \/ BusPushTried(t)
    \/ ExpandLock(t)
    \/ ExpandTried(t)
    \/ MigratePopped(t)

\* one step of EventBus::try_pop_batch
BusPopStep(t) ==
    \/ \E max_batch_size \in 0..MaxBatch : BatchBegin(t, max_batch_size)
    \/ BatchPopped(t)

\* any number of threads pushing, a consumer popping batches
NextBus ==
    /\ \/ \E t \in BusPushers : BusPushStep(t, MaxConcurrentPushes) \/ RingStep(t)
       \/ \E t \in BusConsumers : BusPopStep(t) \/ RingStep(t)
    /\ UNCHANGED <<harnessVars, texVars, procVars, winVars>>

SpecBus == InitBus /\ [][NextBus]_vars

\* one thread makes every call
NextBusSeq ==
    /\ BusPushStep("s", MaxBusPushes) \/ BusPopStep("s") \/ RingStep("s")
    /\ UNCHANGED <<harnessVars, texVars, procVars, winVars>>

SpecBusSeq == InitBus /\ [][NextBusSeq]_vars

----------------------------------------------------------------------------
(* InputProcessorThread: the owner calls set_callback, start and stop; the  *)
(* worker thread runs run_loop on the bus.  The callback returns.           *)

\* run_loop: const BATCH_SIZE, scaled
BATCH_SIZE == MaxBatch

\* the thread that runs run_loop, and the thread that pushes
Worker == "c1"
Poster == "p1"

\* InputProcessorThread::new
NewProc ==
    [ running       |-> FALSE,
      thread_handle |-> None,
      callback      |-> None,
      owner   |-> "idle",   \* where the owner is: "idle", or "stop_join" inside stop()
      worker  |-> "none",   \* where the worker is in run_loop; "none": no thread
      events  |-> <<>>,     \* run_loop: the batch in hand
      call    |-> "new",    \* the owner's last call and how it went
      invoked |-> <<>>,     \* observer: the inputs the callback was called with
      dropped |-> 0 ]       \* observer: events popped while no callback was set

InitProc ==
    /\ rings = <<NewRing(INITIAL_BUFFER_CAPACITY)>>
    /\ current_buffer = 1
    /\ lock = None
    /\ sequence = 0
    /\ stats = NoStats
    /\ bus_obs = NoBusObs
    /\ th = [t \in RingThreads |-> IdleThread]
    /\ obs = NoObs
    /\ snap = NoCall
    /\ NoTex
    /\ NoWin
    /\ proc = NewProc

\* InputProcessorThread::set_callback; the worker holds the callback mutex
\* while it dispatches a batch
SetCallback(cb) ==
    /\ proc.owner = "idle"
    /\ proc.worker # "dispatch"
    /\ proc' = [proc EXCEPT !.callback = Some(cb), !.call = "set_callback"]
    /\ UNCHANGED <<ringVars, busVars>>

\* InputProcessorThread::start
Start ==
    /\ proc.owner = "idle"
    /\ IF proc.running
       THEN proc' = [proc EXCEPT !.call = "start_already_running"]
       ELSE proc' = [proc EXCEPT !.running = TRUE,
                                 !.thread_handle = Some(Worker),
                                 !.worker = "loop",
                                 !.call = "start"]
    /\ UNCHANGED <<ringVars, busVars>>

\* InputProcessorThread::stop, up to the join
StopBegin ==
    /\ proc.owner = "idle"
    /\ IF ~proc.running
       THEN proc' = [proc EXCEPT !.call = "stop_not_running"]
       ELSE proc' = [proc EXCEPT !.running = FALSE, !.owner = "stop_join",
                                 !.call = "stop"]
    /\ UNCHANGED <<ringVars, busVars>>

\* a join that does not wait for the thread
StopJoinNoWait ==
    /\ proc.owner = "stop_join"
    /\ proc' = [proc EXCEPT !.thread_handle = None,
                            !.owner = "idle",
                            !.call = "stop_returned"]
    /\ UNCHANGED <<ringVars, busVars>>

\* stop: self.thread_handle.take(), handle.join() returning
StopJoin ==
    /\ proc.owner = "stop_join"
    /\ IsSome(proc.thread_handle) => proc.worker = "exited"
    /\ proc' = [proc EXCEPT !.thread_handle = None,
                            !.worker = "none",
                            !.owner = "idle",
                            !.call = "stop_returned"]
    /\ UNCHANGED <<ringVars, busVars>>

\* run_loop: while running.load(Acquire)
RunLoopCheck ==
    /\ proc.worker = "loop"
    /\ proc' = [proc EXCEPT !.worker = IF proc.running THEN "call_pop" ELSE "exited"]
    /\ UNCHANGED <<ringVars, busVars>>

\* run_loop: bus.try_pop_batch(BATCH_SIZE) is entered
RunLoopPopBegin ==
    /\ proc.worker = "call_pop"
    /\ BatchBegin(Worker, BATCH_SIZE)
    /\ proc' = [proc EXCEPT !.worker = "pop"]

\* run_loop: inside try_pop_batch; when it returns, an empty batch goes back to
\* the loop head and any other batch to the callback
RunLoopPop ==
    /\ proc.worker = "pop"
    /\ \/ RingStep(Worker) /\ UNCHANGED proc
       \/ /\ BatchPopped(Worker)
          /\ LET events == SubSeq(bus_obs'.delivered, Len(bus_obs.delivered) + 1,
                                  Len(bus_obs'.delivered))
             IN  proc' = IF th'[Worker].pc # "idle" THEN proc
                         ELSE IF events = <<>> THEN [proc EXCEPT !.worker = "loop"]
                         ELSE [proc EXCEPT !.worker = "lock_callback",
                                           !.events = events]

\* run_loop: callback.lock(); if let Some(ref mut cb) = *callback_guard
RunLoopLockCallback ==
    /\ proc.worker = "lock_callback"
    /\ IF IsSome(proc.callback)
       THEN proc' = [proc EXCEPT !.worker = "dispatch"]
       ELSE proc' = [proc EXCEPT !.worker = "loop",
                                 !.events = <<>>,
                                 !.dropped = @ + Len(proc.events)]
    /\ UNCHANGED <<ringVars, busVars>>

\* a dispatch loop that looks at the running flag before every event
RunLoopDispatchChecked ==
    /\ proc.worker = "dispatch"
    /\ IF ~proc.running
       THEN proc' = [proc EXCEPT !.worker = "exited"]
       ELSE IF proc.events = <<>>
       THEN proc' = [proc EXCEPT !.worker = "loop"]
       ELSE proc' = [proc EXCEPT !.invoked = Append(@, Head(proc.events).input),
                                 !.events = Tail(proc.events)]
    /\ UNCHANGED <<ringVars, busVars>>

\* run_loop: for event in events { cb(event.input) }, one turn; after the last
\* the guard is dropped
RunLoopDispatch ==
    /\ proc.worker = "dispatch"
    /\ IF proc.events = <<>>
       THEN proc' = [proc EXCEPT !.worker = "loop"]
       ELSE proc' = [proc EXCEPT !.invoked = Append(@, Head(proc.events).input),
                                 !.events = Tail(proc.events)]
    /\ UNCHANGED <<ringVars, busVars>>

\* the owner's calls
OwnerStep ==
    \/ SetCallback("cb")
    \/ Start
    \/ StopBegin
    \/ StopJoin

\* a step of the worker thread
WorkerStep ==
    \/ RunLoopCheck
    \/ RunLoopPopBegin
    \/ RunLoopPop
    \/ RunLoopLockCallback
    \/ RunLoopDispatch

\* a step of the thread that posts events
PosterStep ==
    /\ BusPushStep(Poster, MaxConcurrentPushes) \/ RingStep(Poster)
    /\ UNCHANGED proc

NextProc ==
    /\ OwnerStep \/ WorkerStep \/ PosterStep
    /\ UNCHANGED <<harnessVars, texVars, winVars>>

SpecProc == InitProc /\ [][NextProc]_vars

\* every thread that can take a step takes one in the end
SpecProcFair ==
    /\ SpecProc
    /\ WF_vars(WorkerStep /\ UNCHANGED <<harnessVars, texVars, winVars>>)
    /\ WF_vars(StopJoin /\ UNCHANGED <<harnessVars, texVars, winVars>>)
    /\ WF_vars(PosterStep /\ UNCHANGED <<harnessVars, texVars, winVars>>)

----------------------------------------------------------------------------
(* The external texture registry of DirectXAtlas and MetalAtlas.  Every     *)
(* call runs under the atlas mutex, so a call is one step.  A GPU resource  *)
(* is named by the texture id it was created for and its role at creation;  *)
(* its pixel contents are one frame: "blank" as created, or what the        *)
(* producer wrote.                                                          *)

Frames == {"red", "green"}
Blank == "blank"

\* DXGI formats a caller may ask for; the last one is not supported
Formats == {"R8G8B8A8_UNORM", "B8G8R8A8_UNORM", "R8_UNORM", "R16_FLOAT"}
Sizes == {[width |-> 2, height |-> 2]}

Ids == 1..MaxTextures

\* a match that takes every format for a four-byte one
BytesPerPixelAny(format) == 4

\* register_external_texture: let bytes_per_pixel = match format { .. }
BytesPerPixel(format) ==
    CASE format \in {"R8G8B8A8_UNORM", "B8G8R8A8_UNORM"} -> 4
      [] format = "R8_UNORM" -> 1
      [] OTHER -> 0

Supported(format) == BytesPerPixel(format) # 0

\* a removal that takes every key
WithoutAny(f, k) == [i \in {} |-> f[i]]

\* a function with key k removed
Without(f, k) == [i \in DOMAIN f \ {k} |-> f[i]]

\* a function with key k set to v
With(f, k, v) == [i \in DOMAIN f \cup {k} |-> IF i = k THEN v ELSE f[i]]

\* the resources created for texture id
ResourcesOf(id) == {<<id, "front">>, <<id, "back">>, <<id, "staging">>}

\* device.CreateShaderResourceView(&texture, ..)
ViewOn(texture) == [view_of |-> texture]

\* a copy that goes the wrong way
CopyResourceReversed(heap, dst, src) == [heap EXCEPT ![src] = heap[dst]]

\* device_context.CopyResource(&dst, &src)
CopyResource(heap, dst, src) == [heap EXCEPT ![dst] = heap[src]]

Ret(op, id, res, val) == [op |-> op, id |-> id, res |-> res, val |-> val]

\* DirectXAtlas::new / MetalAtlas::new
InitAtlas(b) ==
    /\ backend = b
    /\ external_textures = <<>>
    /\ next_external_texture_id = 1
    /\ gpu = <<>>
    /\ slice = <<>>
    /\ tex_ret = Ret("new", 0, "Ok", None)

Registered(id) == id \in DOMAIN external_textures

\* the registry as one value, and the registry becoming such a value
Registry ==
    [ external_textures        |-> external_textures,
      next_external_texture_id |-> next_external_texture_id,
      gpu                      |-> gpu,
      slice                    |-> slice,
      tex_ret                  |-> tex_ret ]

Becomes(reg) ==
    /\ external_textures' = reg.external_textures
    /\ next_external_texture_id' = reg.next_external_texture_id
    /\ gpu' = reg.gpu
    /\ slice' = reg.slice
    /\ tex_ret' = reg.tex_ret

\* the registry after a call that found no entry id
NotFoundIn(reg, op, id) == [reg EXCEPT !.tex_ret = Ret(op, id, "NotFound", None)]

\* a call with an id the registry does not hold: "External texture not found"
NotFound(op, id) ==
    /\ ~Registered(id)
    /\ tex_ret' = Ret(op, id, "NotFound", None)
    /\ UNCHANGED <<backend, external_textures, next_external_texture_id, gpu, slice>>

(* DirectXAtlas *)

\* DirectXAtlas::register_external_texture
D3DRegister(size, format) ==
    /\ backend = "D3D11"
    /\ next_external_texture_id <= MaxTextures
    /\ IF ~Supported(format)
       THEN /\ tex_ret' = Ret("register", 0, "UnsupportedFormat", None)
            /\ UNCHANGED <<external_textures, next_external_texture_id, gpu, slice>>
       ELSE LET id == next_external_texture_id
                entry == [ front_texture   |-> <<id, "front">>,
                           front_view      |-> ViewOn(<<id, "front">>),
                           back_texture    |-> <<id, "back">>,
                           back_view       |-> ViewOn(<<id, "back">>),
                           staging_texture |-> <<id, "staging">>,
                           size            |-> size,
                           format          |-> format,
                           bytes_per_pixel |-> BytesPerPixel(format),
                           needs_swap      |-> FALSE,
                           is_mapped       |-> FALSE ]
            IN  /\ next_external_texture_id' = id + 1
                /\ external_textures' = With(external_textures, id, entry)
                /\ gpu' = [r \in DOMAIN gpu \cup ResourcesOf(id) |->
                             IF r \in DOMAIN gpu THEN gpu[r] ELSE Blank]
                /\ slice' = With(slice, id, None)
                /\ tex_ret' = Ret("register", id, "Ok", None)
    /\ UNCHANGED backend

\* register_external_texture: CreateTexture2D / CreateShaderResourceView fails
D3DRegisterGpuError(size, format) ==
    /\ backend = "D3D11"
    /\ next_external_texture_id <= MaxTextures
    /\ Supported(format)
    /\ tex_ret' = Ret("register", 0, "GpuError", None)
    /\ UNCHANGED <<backend, external_textures, next_external_texture_id, gpu, slice>>

\* DirectXAtlas::map_external_texture
D3DMap(id) ==
    /\ backend = "D3D11"
    /\ \/ NotFound("map", id)
       \/ /\ Registered(id)
          /\ LET entry == external_textures[id]
                 len == (entry.size.width * entry.size.height) * entry.bytes_per_pixel
             IN  IF entry.is_mapped
                 THEN /\ tex_ret' = Ret("map", id, "AlreadyMapped", None)
                      /\ UNCHANGED <<external_textures, slice>>
                 ELSE \/ \* device_context.Map(..) fails
                         /\ tex_ret' = Ret("map", id, "GpuError", None)
                         /\ UNCHANGED <<external_textures, slice>>
                      \/ /\ external_textures' =
                                [external_textures EXCEPT ![id].is_mapped = TRUE]
                         /\ slice' = [slice EXCEPT ![id] = Some(entry.staging_texture)]
                         /\ tex_ret' = Ret("map", id, "Ok",
                                [ptr |-> entry.staging_texture, len |-> len])
          /\ UNCHANGED <<backend, next_external_texture_id, gpu>>

\* DirectXAtlas::unmap_external_texture
D3DUnmap(id) ==
    /\ backend = "D3D11"
    /\ \/ NotFound("unmap", id)
       \/ /\ Registered(id)
          /\ LET entry == external_textures[id]
             IN  IF ~entry.is_mapped
                 THEN /\ tex_ret' = Ret("unmap", id, "NotMapped", None)
                      /\ UNCHANGED <<external_textures, gpu, slice>>
                 ELSE /\ gpu' = CopyResource(gpu, entry.back_texture, entry.staging_texture)
                      /\ external_textures' =
                             [external_textures EXCEPT ![id].is_mapped = FALSE,
                                                       ![id].needs_swap = TRUE]
                      /\ slice' = [slice EXCEPT ![id] = None]
                      /\ tex_ret' = Ret("unmap", id, "Ok", None)
          /\ UNCHANGED <<backend, next_external_texture_id>>

\* a swap that exchanges the textures and leaves the views where they were
D3DSwappedTexturesOnly(entry) ==
    IF entry.needs_swap
    THEN [entry EXCEPT !.front_texture = entry.back_texture,
                       !.back_texture = entry.front_texture,
                       !.needs_swap = FALSE]
    ELSE entry

\* swap_external_texture_buffers: if entry.needs_swap { mem::swap x2; .. }
D3DSwapped(entry) ==
    IF entry.needs_swap
    THEN [entry EXCEPT !.front_texture = entry.back_texture,
                       !.back_texture = entry.front_texture,
                       !.front_view = entry.back_view,
                       !.back_view = entry.front_view,
                       !.needs_swap = FALSE]
    ELSE entry

\* DirectXAtlas::swap_external_texture_buffers
D3DSwap(id) ==
    /\ backend = "D3D11"
    /\ \/ NotFound("swap", id)
       \/ /\ Registered(id)
          /\ external_textures' =
                [external_textures EXCEPT ![id] = D3DSwapped(external_textures[id])]
          /\ tex_ret' = Ret("swap", id, "Ok", None)
          /\ UNCHANGED <<backend, next_external_texture_id, gpu, slice>>

\* DirectXAtlas::get_external_texture_view
D3DView(id) ==
    /\ backend = "D3D11"
    /\ \/ NotFound("view", id)
       \/ /\ Registered(id)
          /\ tex_ret' = Ret("view", id, "Ok", external_textures[id].front_view)
          /\ UNCHANGED <<backend, external_textures, next_external_texture_id,
                         gpu, slice>>

\* unregister_external_texture, of either atlas; with the entry its resources
\* and the producer's slice go
Unregistered(reg, id) ==
    [reg EXCEPT !.external_textures = Without(reg.external_textures, id),
                !.gpu = [r \in {x \in DOMAIN reg.gpu : x[1] # id} |-> reg.gpu[r]],
                !.slice = Without(reg.slice, id),
                !.tex_ret = Ret("unregister", id, "Ok", None)]

Unregister(id) ==
    /\ Becomes(Unregistered(Registry, id))
    /\ UNCHANGED backend

D3DUnregister(id) ==
    /\ backend = "D3D11"
    /\ Unregister(id)

\* a device loss that also starts the ids again
D3DHandleDeviceLostResetsIds ==
    /\ backend = "D3D11"
    /\ external_textures' = <<>>
    /\ gpu' = <<>>
    /\ slice' = <<>>
    /\ next_external_texture_id' = 1
    /\ tex_ret' = Ret("handle_device_lost", 0, "Ok", None)
    /\ UNCHANGED backend

\* DirectXAtlas::handle_device_lost
D3DHandleDeviceLost ==
    /\ backend = "D3D11"
    /\ external_textures' = <<>>
    /\ gpu' = <<>>
    /\ slice' = <<>>
    /\ tex_ret' = Ret("handle_device_lost", 0, "Ok", None)
    /\ UNCHANGED <<backend, next_external_texture_id>>

(* MetalAtlas *)

\* MetalAtlas::new
MetalNew ==
    [ external_textures        |-> <<>>,
      next_external_texture_id |-> 1,
      gpu                      |-> <<>>,
      slice                    |-> <<>>,
      tex_ret                  |-> Ret("new", 0, "Ok", None) ]

\* MetalAtlas::register_external_texture
MetalRegistered(reg, size) ==
    LET id == reg.next_external_texture_id
        entry == [ front_texture |-> <<id, "front">>,
                   back_texture  |-> <<id, "back">>,
                   size          |-> size,
                   needs_swap    |-> FALSE ]
    IN  [ external_textures        |-> With(reg.external_textures, id, entry),
          next_external_texture_id |-> id + 1,
          gpu     |-> [r \in DOMAIN reg.gpu \cup {<<id, "front">>, <<id, "back">>} |->
                         IF r \in DOMAIN reg.gpu THEN reg.gpu[r] ELSE Blank],
          slice   |-> With(reg.slice, id, None),
          tex_ret |-> Ret("register", id, "Ok", None) ]

MetalRegister(size) ==
    /\ backend = "Metal"
    /\ next_external_texture_id <= MaxTextures
    /\ Becomes(MetalRegistered(Registry, size))
    /\ UNCHANGED backend

\* MetalAtlas::map_external_texture
MetalMapped(reg, id) ==
    IF id \notin DOMAIN reg.external_textures THEN NotFoundIn(reg, "map", id)
    ELSE LET entry == reg.external_textures[id]
             bytes_per_row == entry.size.width * 4
             total_size == bytes_per_row * entry.size.height
         IN  [reg EXCEPT !.slice[id] = Some(entry.back_texture),
                         !.tex_ret = Ret("map", id, "Ok",
                             [ptr |-> entry.back_texture, len |-> total_size])]

MetalMap(id) ==
    /\ backend = "Metal"
    /\ Becomes(MetalMapped(Registry, id))
    /\ UNCHANGED backend

\* MetalAtlas::unmap_external_texture
MetalUnmapped(reg, id) ==
    IF id \notin DOMAIN reg.external_textures THEN NotFoundIn(reg, "unmap", id)
    ELSE [reg EXCEPT !.external_textures[id].needs_swap = TRUE,
                     !.slice[id] = None,
                     !.tex_ret = Ret("unmap", id, "Ok", None)]

MetalUnmap(id) ==
    /\ backend = "Metal"
    /\ Becomes(MetalUnmapped(Registry, id))
    /\ UNCHANGED backend

\* a swap that exchanges whether or not one is pending
MetalSwappedAlways(entry) ==
    [entry EXCEPT !.front_texture = entry.back_texture,
                  !.back_texture = entry.front_texture,
                  !.needs_swap = FALSE]

\* swap_external_texture_buffers: if entry.needs_swap { mem::swap; .. }
MetalSwapped(entry) ==
    IF entry.needs_swap
    THEN [entry EXCEPT !.front_texture = entry.back_texture,
                       !.back_texture = entry.front_texture,
                       !.needs_swap = FALSE]
    ELSE entry

\* MetalAtlas::swap_external_texture_buffers
MetalSwapDone(reg, id) ==
    IF id \notin DOMAIN reg.external_textures THEN NotFoundIn(reg, "swap", id)
    ELSE [reg EXCEPT !.external_textures[id] = MetalSwapped(reg.external_textures[id]),
                     !.tex_ret = Ret("swap", id, "Ok", None)]

MetalSwap(id) ==
    /\ backend = "Metal"
    /\ Becomes(MetalSwapDone(Registry, id))
    /\ UNCHANGED backend

\* MetalAtlas::get_external_metal_texture
MetalViewed(reg, id) ==
    IF id \notin DOMAIN reg.external_textures THEN NotFoundIn(reg, "view", id)
    ELSE [reg EXCEPT !.tex_ret =
             Ret("view", id, "Ok", reg.external_textures[id].front_texture)]

MetalView(id) ==
    /\ backend = "Metal"
    /\ Becomes(MetalViewed(Registry, id))
    /\ UNCHANGED backend

\* MetalAtlas::unregister_external_texture
MetalUnregister(id) ==
    /\ backend = "Metal"
    /\ Unregister(id)

(* The producer *)

\* the producer fills the slice map returned with a frame; the slice is valid
\* from map to the matching unmap
Written(reg, id, frame) ==
    [reg EXCEPT !.gpu[Unwrap(reg.slice[id])] = frame,
                !.tex_ret = Ret("write", id, "Ok", frame)]

ProducerWrite(id, frame) ==
    /\ Registered(id)
    /\ IsSome(slice[id])
    /\ Becomes(Written(Registry, id, frame))
    /\ UNCHANGED backend

\* the texture the compositor samples for id: the one view(id) leads to
FrontTexture(id) ==
    IF backend = "D3D11" THEN external_textures[id].front_view.view_of
    ELSE external_textures[id].front_texture

\* what view(id) returns
ViewOf(id) ==
    IF backend = "D3D11" THEN external_textures[id].front_view
    ELSE external_textures[id].front_texture

\* the producer's cycle on a texture, as far as the calls just made follow
\* map, write p, unmap, swap, map, write q, unmap, swap: stage counts the
\* calls of the cycle made, 0 when the calls left the cycle
NoCycle == [stage |-> 0, p |-> Blank, q |-> Blank]

CycleAfter(c, r) ==
    CASE r.op = "map" ->
            IF c.stage = 4 THEN [c EXCEPT !.stage = 5]
            ELSE [NoCycle EXCEPT !.stage = 1]
      [] r.op = "write" ->
            IF c.stage \in {1, 2} THEN [c EXCEPT !.stage = 2, !.p = r.val]
            ELSE IF c.stage \in {5, 6} THEN [c EXCEPT !.stage = 6, !.q = r.val]
            ELSE NoCycle
      [] r.op = "unmap" ->
            IF c.stage \in {2, 6} THEN [c EXCEPT !.stage = c.stage + 1]
            ELSE NoCycle
      [] r.op = "swap" ->
            IF c.stage \in {3, 7} THEN [c EXCEPT !.stage = c.stage + 1]
            ELSE NoCycle
      [] OTHER -> c

\* cycle after the call that has just returned r
CycleNext(r) ==
    [id \in DOMAIN external_textures' |->
        IF id \notin DOMAIN cycle THEN NoCycle
        ELSE IF r.id = id /\ r.res = "Ok" THEN CycleAfter(cycle[id], r)
        ELSE cycle[id]]

\* the ids register has returned, after the call that has just returned r
IssuedNext(r) ==
    IF r.op = "register" /\ r.res = "Ok" THEN Append(issued, r.id) ELSE issued

\* one registry holding one external texture at a time: the producer maps,
\* writes and unmaps, the compositor swaps and views
InitTex ==
    /\ \E b \in {"D3D11", "Metal"} : InitAtlas(b)
    /\ cycle = <<>>
    /\ issued = <<>>
    /\ mirror = <<>>
    /\ NoProc
    /\ NoWin
    /\ rings = <<>>
    /\ th = <<>>
    /\ obs = NoObs
    /\ snap = NoCall
    /\ NoBus

NextTex ==
    /\ \/ \E size \in Sizes, format \in Formats :
            /\ external_textures = <<>>
            /\ D3DRegister(size, format) \/ D3DRegisterGpuError(size, format)
       \/ \E size \in Sizes : external_textures = <<>> /\ MetalRegister(size)
       \/ \E id \in Ids :
            \/ D3DMap(id)
            \/ D3DUnmap(id)
            \/ D3DSwap(id)
            \/ D3DView(id)
            \/ D3DUnregister(id)
            \/ MetalMap(id)
            \/ MetalUnmap(id)
            \/ MetalSwap(id)
            \/ MetalView(id)
            \/ MetalUnregister(id)
            \/ \E frame \in Frames : ProducerWrite(id, frame)
       \/ D3DHandleDeviceLost
    /\ cycle' = CycleNext(tex_ret')
    /\ issued' = IssuedNext(tex_ret')
    /\ UNCHANGED <<mirror, ringVars, harnessVars, busVars, procVars, winVars>>

SpecTex == InitTex /\ [][NextTex]_vars

\* one supported format of each pixel width
FormatsOfEachWidth == {"B8G8R8A8_UNORM", "R8_UNORM"}

\* one registry holding any number of external textures at a time: the calls
\* of the registry alone, nothing written through the mapped slices
NextTexMulti ==
    /\ \/ \E size \in Sizes, format \in FormatsOfEachWidth :
            D3DRegister(size, format) \/ D3DRegisterGpuError(size, format)
       \/ \E size \in Sizes : MetalRegister(size)
       \/ \E id \in Ids :
            \/ D3DMap(id)
            \/ D3DUnmap(id)
            \/ D3DSwap(id)
            \/ D3DView(id)
            \/ D3DUnregister(id)
            \/ MetalMap(id)
            \/ MetalUnmap(id)
            \/ MetalSwap(id)
            \/ MetalView(id)
            \/ MetalUnregister(id)
       \/ D3DHandleDeviceLost
    /\ issued' = IssuedNext(tex_ret')
    /\ UNCHANGED <<cycle, mirror, ringVars, harnessVars, busVars, procVars, winVars>>

SpecTexMulti == InitTex /\ [][NextTexMulti]_vars

\* a DirectXAtlas registry and a MetalAtlas registry given the same calls, one
\* texture at a time, BGRA8, the D3D11 device answering every call
InitTexBoth ==
    /\ InitAtlas("D3D11")
    /\ mirror = MetalNew
    /\ cycle = <<>>
    /\ issued = <<>>
    /\ NoProc
    /\ NoWin
    /\ rings = <<>>
    /\ th = <<>>
    /\ obs = NoObs
    /\ snap = NoCall
    /\ NoBus

NextTexBoth ==
    /\ \/ \E size \in Sizes :
            /\ external_textures = <<>>
            /\ D3DRegister(size, "B8G8R8A8_UNORM")
            /\ mirror' = MetalRegistered(mirror, size)
       \/ \E id \in Ids :
            \/ D3DMap(id) /\ mirror' = MetalMapped(mirror, id)
            \/ D3DUnmap(id) /\ mirror' = MetalUnmapped(mirror, id)
            \/ D3DSwap(id) /\ mirror' = MetalSwapDone(mirror, id)
            \/ D3DView(id) /\ mirror' = MetalViewed(mirror, id)
            \/ D3DUnregister(id) /\ mirror' = Unregistered(mirror, id)
            \/ \E frame \in Frames :
                  /\ ProducerWrite(id, frame)
                  /\ id \in DOMAIN mirror.slice
                  /\ IsSome(mirror.slice[id])
                  /\ mirror' = Written(mirror, id, frame)
    /\ tex_ret'.res # "GpuError"
    /\ issued' = IssuedNext(tex_ret')
    /\ UNCHANGED <<cycle, ringVars, harnessVars, busVars, procVars, winVars>>

SpecTexBoth == InitTexBoth /\ [][NextTexBoth]_vars

----------------------------------------------------------------------------
(* Claims about the ring *)

\* the value of a slot, 0 for an empty one
Val(o) == IF IsSome(o) THEN o[1] ELSE 0

SeqToSet(q) == {q[i] : i \in 1..Len(q)}

NoDuplicates(q) == \A i, j \in 1..Len(q) : i # j => q[i] # q[j]

\* C1: with concurrent try_push and try_pop callers on a ring of capacity C,
\* at every observation successful pops <= successful pushes, successful
\* pushes - successful pops <= C, and 0 <= tail - head <= C.
C1_CountersBounded ==
    LET r == rings[TheRing]
    IN  /\ Len(obs.popped) <= Len(obs.pushed)
        /\ Len(obs.pushed) - Len(obs.popped) <= r.capacity
        /\ 0 <= r.tail - r.head
        /\ r.tail - r.head <= r.capacity

\* the values a consumer has taken out of a slot and not yet returned
TakenByConsumers ==
    {Val(th[t].ev) : t \in {c \in Consumers : th[c].pc = "try_pop_store_head"}}

\* the values the slots of the ring hold
InSlots(r) == {Val(r.buffer[i]) : i \in DOMAIN r.buffer}

\* C2: with concurrent producers and consumers every value whose try_push
\* returned true is returned by exactly one try_pop: it is never overwritten
\* before it is read (until popped it is in a slot or in the hands of the
\* consumer that took it), never returned twice, and try_pop returns only
\* values that were pushed.
C2_ExactlyOnce ==
    /\ NoDuplicates(obs.popped)
    /\ SeqToSet(obs.popped) \subseteq 1..obs.calls
    /\ \A v \in SeqToSet(obs.pushed) :
          \/ v \in SeqToSet(obs.popped)
          \/ v \in InSlots(rings[TheRing])
          \/ v \in TakenByConsumers

\* the values between head and tail in counter order, the one the consumer
\* is returning included
Pending(r, c) ==
    [ k \in 1..(r.tail - r.head) |->
        IF k = 1 /\ th[c].pc = "try_pop_store_head"
        THEN Val(th[c].ev)
        ELSE Val(r.buffer[SlotIndex(r.head + k - 1, r.mask)]) ]

\* C6: with a single producer interleaved with try_pop calls, try_pop returns
\* exactly the successfully pushed values in push order, also after the
\* counters wrap around the slot array: the pushed values are the popped
\* values followed by the values pending between head and tail.
C6_Fifo ==
    LET r == rings[TheRing]
    IN  /\ r.head <= r.tail
        /\ obs.pushed = obs.popped \o Pending(r, "c1")

\* the counters have wrapped around the slot array and every pushed value
\* was popped
C6_Witness ==
    /\ Len(obs.popped) > RingCapacity
    /\ rings[TheRing].tail > RingCapacity
    /\ obs.popped = obs.pushed

\* C7: in sequential use try_push returns false exactly when the ring holds
\* C values, and then leaves head, tail and the slots unchanged; a try_push
\* that follows a try_pop on a full ring succeeds; try_pop returns nothing
\* exactly when head = tail.
C7_FullAndEmpty ==
    th["s"].pc = "idle" =>
        LET now == rings[TheRing]
            before == snap.before
        IN  /\ snap.call = "try_push" =>
                  /\ (th["s"].res = Some(FALSE)) <=> (Occupied(before) = RingCapacity)
                  /\ th["s"].res = Some(FALSE) => now = before
                  /\ (snap.prev.call = "try_pop" /\ snap.prev.full)
                        => th["s"].res = Some(TRUE)
            /\ snap.call = "try_pop" =>
                  /\ (th["s"].res = Some(None)) <=> (before.head = before.tail)
                  /\ th["s"].res = Some(None) => now = before

\* a try_push on the full ring has returned false
C7_Witness ==
    /\ th["s"].pc = "idle"
    /\ snap.call = "try_push"
    /\ Occupied(snap.before) = RingCapacity
    /\ th["s"].res = Some(FALSE)

----------------------------------------------------------------------------
(* Claims about the event bus *)

\* the sequence number in a slot, -1 for an empty one
SeqNo(o) == IF IsSome(o) THEN o[1].sequence_number ELSE 0 - 1

Delivered == bus_obs.delivered

\* C3: with any number of threads calling EventBus::push concurrently, the
\* envelopes successive try_pop_batch calls return carry strictly increasing
\* sequence numbers, without duplicates.
C3_DeliveryInSequenceOrder ==
    \A i, j \in 1..Len(Delivered) :
        i < j => Delivered[i].sequence_number < Delivered[j].sequence_number

\* no call is in progress, every push has returned and the bus is empty
BusDrained ==
    /\ \A t \in RingThreads : th[t].pc = "idle"
    /\ bus_obs.returned = bus_obs.inputs
    /\ RingIsEmpty(rings[current_buffer])

\* C4: no input event is dropped: once every push has returned and the
\* consumer has emptied the bus, every input given to EventBus::push was
\* returned by try_pop_batch exactly once.
C4_NoEventDropped ==
    BusDrained =>
        \A i \in 1..bus_obs.inputs :
            Cardinality({k \in 1..Len(Delivered) : Delivered[k].input = i}) = 1

\* the sequence numbers pending in ring r, in counter order
PendingSeqNos(r) ==
    [ k \in 1..(r.tail - r.head) |-> SeqNo(r.buffer[SlotIndex(r.head + k - 1, r.mask)]) ]

\* C5: a single producer, no concurrent consumer: after n pushes len() = n
\* less the envelopes popped, the envelopes come out with the sequence
\* numbers 0, 1, ... in that order and the bus holds the rest in that order
\* (migration keeps the old events in FIFO order and puts the event that
\* triggered the expansion last), and n above the initial capacity with
\* nothing popped means buffer_expansions >= 1.
C5_SingleProducerExpansion ==
    th["s"].pc = "idle" =>
        LET n == bus_obs.returned
            k == Len(Delivered)
            r == rings[current_buffer]
        IN  /\ \A i \in 1..k : Delivered[i].sequence_number = i - 1
            /\ r.head <= r.tail
            /\ BusLen = n - k
            /\ PendingSeqNos(r) = [i \in 1..(n - k) |-> k + i - 1]
            /\ (k = 0 /\ n > INITIAL_BUFFER_CAPACITY) => stats.buffer_expansions >= 1

\* more events than the initial capacity were pushed before the first pop,
\* and all of them were popped
C5_Witness ==
    /\ th["s"].pc = "idle"
    /\ bus_obs.pushed_before_pop = bus_obs.returned
    /\ bus_obs.returned > INITIAL_BUFFER_CAPACITY
    /\ stats.buffer_expansions >= 1
    /\ Len(Delivered) = bus_obs.returned

----------------------------------------------------------------------------
(* Claims about the external texture registry *)

\* the texture map(id) would hand to the producer's next frame
BackTexture(id) == external_textures[id].back_texture

\* C8: no reachable state of an external texture entry has is_mapped and
\* needs_swap both true, whatever the sequence of register, map, unmap, swap
\* and view calls, map after unmap and before swap included.
C8_NeverMappedAndPendingSwap ==
    backend = "D3D11" =>
        \A id \in DOMAIN external_textures :
            ~(external_textures[id].is_mapped /\ external_textures[id].needs_swap)

\* C9: what view(id) returns and the pixels it holds change only in a step
\* where swap(id) runs with needs_swap set; map, the producer's writes and
\* unmap leave both alone, on the D3D11 and on the Metal registry.
C9_ViewChangesOnlyOnSwap ==
    [][\A id \in DOMAIN external_textures \cap DOMAIN external_textures' :
          (\/ ViewOf(id)' # ViewOf(id)
           \/ gpu'[FrontTexture(id)'] # gpu[FrontTexture(id)])
          => /\ tex_ret'.op = "swap"
             /\ tex_ret'.id = id
             /\ external_textures[id].needs_swap]_vars

\* C10: after map, write P, unmap, swap the front buffer view leads to holds
\* P; after a second such cycle with Q the front holds Q and the back holds P.
C10_RoundTrip ==
    \A id \in DOMAIN cycle :
        /\ cycle[id].stage = 4 => gpu[FrontTexture(id)] = cycle[id].p
        /\ cycle[id].stage = 8 =>
              /\ gpu[FrontTexture(id)] = cycle[id].q
              /\ gpu[BackTexture(id)] = cycle[id].p

\* two full cycles with different patterns, then a view of the front buffer
C10_Witness ==
    \E id \in DOMAIN cycle :
        /\ cycle[id].stage = 8
        /\ cycle[id].p # cycle[id].q
        /\ tex_ret.op = "view"
        /\ tex_ret.id = id
        /\ tex_ret.val = ViewOf(id)

\* the producer holds a mapping of id: a map succeeded and no unmap since
Mapped(id) == IsSome(slice[id])

\* the step is a call op(id) that has just returned
Called(op, id) == tex_ret'.op = op /\ tex_ret'.id = id

\* C11: unmap(id) on a registered texture that is not mapped returns NotMapped
\* and changes no field of any entry; on a mapped texture it succeeds, copies
\* staging into back, clears is_mapped and sets needs_swap.
C11_UnmapContract ==
    [][\A id \in DOMAIN external_textures :
          Called("unmap", id) =>
             IF ~Mapped(id)
             THEN /\ tex_ret'.res = "NotMapped"
                  /\ external_textures' = external_textures
                  /\ gpu' = gpu
             ELSE /\ tex_ret'.res = "Ok"
                  /\ external_textures'[id].needs_swap
                  /\ ~Mapped(id)'
                  /\ backend = "D3D11" =>
                        /\ ~external_textures'[id].is_mapped
                        /\ gpu'[BackTexture(id)] =
                              gpu[external_textures[id].staging_texture]]_vars

\* C12: map(id) on a mapped texture returns AlreadyMapped; a map that returns
\* an error changes no field of any entry; a map that succeeds sets is_mapped
\* and changes nothing else.
C12_MapContract ==
    [][\A id \in DOMAIN external_textures :
          Called("map", id) =>
             /\ Mapped(id) => tex_ret'.res = "AlreadyMapped"
             /\ tex_ret'.res # "Ok" =>
                   /\ external_textures' = external_textures
                   /\ gpu' = gpu
                   /\ slice' = slice
             /\ tex_ret'.res = "Ok" =>
                   /\ Mapped(id)'
                   /\ gpu' = gpu
                   /\ external_textures' =
                         IF backend = "D3D11"
                         THEN [external_textures EXCEPT ![id].is_mapped = TRUE]
                         ELSE external_textures]_vars

\* the entries other than id, and everything outside the entries, are as before
OthersUnchanged(id) ==
    /\ \A o \in DOMAIN external_textures \ {id} :
          /\ o \in DOMAIN external_textures'
          /\ external_textures'[o] = external_textures[o]
          /\ slice'[o] = slice[o]
    /\ \A r \in DOMAIN gpu : r[1] # id => r \in DOMAIN gpu' /\ gpu'[r] = gpu[r]
    /\ next_external_texture_id' = next_external_texture_id

\* C13: map, unmap, swap and view with an id the registry does not hold (never
\* registered, unregistered, or cleared by handle_device_lost) return the
\* not-found error and leave every entry as it was; unregister of such an id
\* does nothing, and unregister(id) removes entry id and no other.
C13_UnknownId ==
    [][\A id \in Ids :
          /\ \A op \in {"map", "unmap", "swap", "view"} :
                (Called(op, id) /\ id \notin DOMAIN external_textures) =>
                    /\ tex_ret'.res = "NotFound"
                    /\ external_textures' = external_textures
                    /\ OthersUnchanged(id)
          /\ Called("unregister", id) =>
                /\ DOMAIN external_textures' = DOMAIN external_textures \ {id}
                /\ OthersUnchanged(id)]_vars

\* a call on an id that register once returned and the registry holds no more,
\* made while another texture is registered
C13_Witness ==
    /\ tex_ret.res = "NotFound"
    /\ tex_ret.id \in SeqToSet(issued)
    /\ external_textures # <<>>

\* the entry a swap makes of entry on the registry's backend
SwappedEntry(entry) ==
    IF backend = "D3D11" THEN D3DSwapped(entry) ELSE MetalSwapped(entry)

\* C14: swap(id) with needs_swap false changes no field of the entry, and a
\* second swap leaves the state the first swap left: front and back are
\* exchanged at most once per unmap.
C14_SwapIdempotent ==
    [][\A id \in DOMAIN external_textures :
          Called("swap", id) =>
             /\ ~external_textures[id].needs_swap =>
                   /\ external_textures' = external_textures
                   /\ gpu' = gpu
                   /\ slice' = slice
             /\ ~external_textures'[id].needs_swap
             /\ SwappedEntry(external_textures'[id]) = external_textures'[id]]_vars

\* a swap has returned on a texture whose buffers were exchanged before
C14_Witness ==
    /\ tex_ret.op = "swap"
    /\ tex_ret.res = "Ok"
    /\ tex_ret.id \in DOMAIN external_textures
    /\ ~external_textures[tex_ret.id].needs_swap
    /\ external_textures[tex_ret.id].front_texture = <<tex_ret.id, "back">>

\* C15: a swap with needs_swap set exchanges front with back exactly, on D3D11
\* the views together with their textures so that each view refers to its own
\* texture, clears needs_swap, and leaves is_mapped, staging, size, format and
\* every other entry as they were.
C15_SwapExchanges ==
    [][\A id \in DOMAIN external_textures :
          (Called("swap", id) /\ external_textures[id].needs_swap) =>
             LET old == external_textures[id]
                 new == external_textures'[id]
             IN  /\ new.front_texture = old.back_texture
                 /\ new.back_texture = old.front_texture
                 /\ ~new.needs_swap
                 /\ new.size = old.size
                 /\ backend = "D3D11" =>
                       /\ new.front_view = old.back_view
                       /\ new.back_view = old.front_view
                       /\ new.front_view.view_of = new.front_texture
                       /\ new.back_view.view_of = new.back_texture
                       /\ new.is_mapped = old.is_mapped
                       /\ new.staging_texture = old.staging_texture
                       /\ new.format = old.format
                       /\ new.bytes_per_pixel = old.bytes_per_pixel
                 /\ OthersUnchanged(id)
                 /\ gpu' = gpu
                 /\ slice' = slice]_vars

\* a pending swap has exchanged the buffers of a mapped D3D11 texture while
\* another texture is registered
C15_Witness ==
    /\ backend = "D3D11"
    /\ tex_ret.op = "swap"
    /\ tex_ret.res = "Ok"
    /\ tex_ret.id \in DOMAIN external_textures
    /\ external_textures[tex_ret.id].front_texture = <<tex_ret.id, "back">>
    /\ external_textures[tex_ret.id].is_mapped
    /\ DOMAIN external_textures # {tex_ret.id}

\* C16: register(size, format) with a format outside RGBA8, BGRA8, R8 fails
\* with the unsupported-format error, creates no entry and consumes no id;
\* with a supported format the entry it creates has is_mapped = false,
\* needs_swap = false and bytes_per_pixel 4 (RGBA8, BGRA8) or 1 (R8).
C16_RegisterFormat ==
    [][\A size \in Sizes, format \in Formats :
          D3DRegister(size, format) =>
             IF format \notin {"R8G8B8A8_UNORM", "B8G8R8A8_UNORM", "R8_UNORM"}
             THEN /\ tex_ret'.res = "UnsupportedFormat"
                  /\ external_textures' = external_textures
                  /\ next_external_texture_id' = next_external_texture_id
             ELSE /\ tex_ret'.res = "Ok"
                  /\ tex_ret'.id \notin DOMAIN external_textures
                  /\ DOMAIN external_textures' =
                        DOMAIN external_textures \cup {tex_ret'.id}
                  /\ LET new == external_textures'[tex_ret'.id]
                     IN  /\ ~new.is_mapped
                         /\ ~new.needs_swap
                         /\ new.format = format
                         /\ new.size = size
                         /\ new.bytes_per_pixel =
                               IF format = "R8_UNORM" THEN 1 ELSE 4]_vars

\* a register refused for its format after one that succeeded: the next id is
\* still the one after the first
C16_Witness ==
    /\ backend = "D3D11"
    /\ tex_ret.op = "register"
    /\ tex_ret.res = "UnsupportedFormat"
    /\ issued = <<1>>
    /\ next_external_texture_id = 2

\* C17: across register, unregister and handle_device_lost each successful
\* register returns an id strictly greater than every id returned before, so
\* an id held from before an unregister or a device loss is never the id of a
\* later texture.
C17_IdsNeverReused ==
    /\ \A i, j \in 1..Len(issued) : i < j => issued[i] < issued[j]
    /\ \A i \in 1..Len(issued) : issued[i] < next_external_texture_id
    /\ DOMAIN external_textures \subseteq SeqToSet(issued)

\* a register has returned after the texture of an earlier id was unregistered
\* or lost with the device
C17_Witness ==
    /\ tex_ret.op = "register"
    /\ tex_ret.res = "Ok"
    /\ Len(issued) >= 2
    /\ issued[1] \notin DOMAIN external_textures
    /\ tex_ret.id = issued[Len(issued)]

\* what a call returned, as the caller sees it on either backend
Outcome(r) == [op |-> r.op, id |-> r.id, res |-> r.res]

\* C18: given the same register (BGRA8), map, unmap, swap, view and unregister
\* calls, the D3D11 registry and the Metal registry return the same outcome for
\* every call and agree on needs_swap and on the frame in the front buffer.
C18_BackendsAgree ==
    /\ Outcome(tex_ret) = Outcome(mirror.tex_ret)
    /\ DOMAIN external_textures = DOMAIN mirror.external_textures
    /\ \A id \in DOMAIN external_textures \cap DOMAIN mirror.external_textures :
          /\ external_textures[id].needs_swap = mirror.external_textures[id].needs_swap
          /\ gpu[external_textures[id].front_view.view_of] =
                mirror.gpu[mirror.external_textures[id].front_texture]

----------------------------------------------------------------------------
(* Claims about the input processor *)

\* the inputs of a sequence of events
Inputs(events) == [i \in 1..Len(events) |-> events[i].input]

\* the callback was called once for each event the bus delivered, with its
\* input, in delivery order; the batch in hand is still to come
InvokedAsDelivered ==
    proc.dropped = 0 =>
        proc.invoked \o Inputs(proc.events) = Inputs(bus_obs.delivered)

\* the posting thread's inputs, numbered in push order, reach the callback in
\* that order
InvokedInPushOrder ==
    \A i, j \in 1..Len(proc.invoked) : i < j => proc.invoked[i] < proc.invoked[j]

\* C19: with a callback configured and the processor running, the callback is
\* invoked exactly once for each event popped from the bus, with the event's
\* input, in the order the bus delivered them, and the events one thread
\* pushed reach the callback in that thread's push order.
C19_CallbackOrder == InvokedAsDelivered /\ InvokedInPushOrder

\* no worker thread is alive while the owner is outside stop() and the
\* processor is not running
NoWorkerWhenStopped ==
    (proc.owner = "idle" /\ ~proc.running) => proc.worker = "none"

\* the callback is invoked only between a start and the return of the stop
\* that follows it
InvokedOnlyWhileStarted ==
    proc'.invoked # proc.invoked =>
        /\ IsSome(proc.thread_handle)
        /\ proc.worker = "dispatch"

\* a stop() on a processor that is not running changes nothing
StopWhenNotRunning ==
    (proc'.call = "stop_not_running" /\ proc.call # "stop_not_running") =>
        /\ proc' = [proc EXCEPT !.call = "stop_not_running"]
        /\ UNCHANGED <<ringVars, busVars>>

\* C20: stop() on a running processor terminates: the worker sees the cleared
\* flag and the join returns; after stop() has returned the callback is not
\* invoked until the processor is started again; stop() on a processor that is
\* not running does nothing.
C20_Lifecycle ==
    /\ []NoWorkerWhenStopped
    /\ [][InvokedOnlyWhileStarted /\ StopWhenNotRunning]_vars
    /\ (proc.owner = "stop_join") ~> (proc.owner = "idle")

\* stop() has returned after the callback ran, with events still in the bus
C20_Witness ==
    /\ proc.call = "stop_returned"
    /\ proc.invoked # <<>>
    /\ BusLen > 0

----------------------------------------------------------------------------
(* GpuCanvasSource: two texture handles and the shared index of the active  *)
(* one.  Every method is one atomic operation on the index, so a call is    *)
(* one step; calls keeps the last CallWindow calls and what they returned.  *)

MaxIndex == 3
CallWindow == 4

CanvasIndexes == 0..MaxIndex

\* an update that leaves the index alone
XorOneNever(index) == index

\* fetch_or(1, ..) in its place: the value stored
OrOne(index) == IF index % 2 = 0 THEN index + 1 ELSE index

\* fetch_xor(1, ..): the value stored
XorOne(index) == IF index % 2 = 0 THEN index + 1 ELSE index - 1

\* the last CallWindow calls, c being the latest
Called4(calls, c) ==
    LET all == Append(calls, c)
    IN  IF Len(all) <= CallWindow THEN all
        ELSE SubSeq(all, Len(all) - CallWindow + 1, Len(all))

\* GpuCanvasSource::new(buffer0, buffer1)
NewCanvas ==
    [ active_buffer |-> 0,
      buffers       |-> <<"buffer0", "buffer1">>,
      calls         |-> <<>> ]

\* GpuCanvasSource::active_buffer
ActiveBuffer ==
    LET index == canvas.active_buffer
    IN  canvas' = [canvas EXCEPT !.calls =
            Called4(@, [op |-> "active_buffer", arg |-> 0,
                        handle |-> canvas.buffers[(index % 2) + 1]])]

\* GpuCanvasSource::swap_buffers
SwapBuffers ==
    canvas' = [canvas EXCEPT
        !.active_buffer = XorOne(@),
        !.calls = Called4(@, [op |-> "swap_buffers", arg |-> 0, handle |-> ""])]

\* GpuCanvasSource::set_active_buffer
SetActiveBuffer(index) ==
    canvas' = [canvas EXCEPT
        !.active_buffer = index % 2,
        !.calls = Called4(@, [op |-> "set_active_buffer", arg |-> index,
                              handle |-> ""])]

InitCanvas ==
    /\ NoBus
    /\ NoTex
    /\ NoProc
    /\ rings = <<>>
    /\ th = <<>>
    /\ obs = NoObs
    /\ snap = NoCall
    /\ wq = <<>>
    /\ integ = <<>>
    /\ NoGfx
    /\ canvas = NewCanvas

NextCanvas ==
    /\ \/ ActiveBuffer
       \/ SwapBuffers
       \/ \E index \in CanvasIndexes : SetActiveBuffer(index)
    /\ UNCHANGED <<ringVars, harnessVars, busVars, texVars, procVars, wq, integ, gfxVars>>

SpecCanvas == InitCanvas /\ [][NextCanvas]_vars

(* Claims about GpuCanvasSource *)

Sibling(handle) == IF handle = "buffer0" THEN "buffer1" ELSE "buffer0"

\* the ops of the calls from position k on are the given ones
OpsAt(k, ops) ==
    /\ k + Len(ops) - 1 <= Len(canvas.calls)
    /\ \A j \in 1..Len(ops) : canvas.calls[k + j - 1].op = ops[j]

\* C30: active_buffer() after one swap_buffers() returns the sibling of the
\* handle returned immediately before the swap, after two swaps the handle
\* returned before them, after set_active_buffer(i) it returns
\* buffers[i mod 2], and the stored index is always 0 or 1
C30_CanvasBuffers ==
    /\ canvas.active_buffer \in {0, 1}
    /\ \A k \in 1..CallWindow :
        /\ OpsAt(k, <<"active_buffer", "swap_buffers", "active_buffer">>)
            => canvas.calls[k + 2].handle = Sibling(canvas.calls[k].handle)
        /\ OpsAt(k, <<"active_buffer", "swap_buffers", "swap_buffers",
                      "active_buffer">>)
            => canvas.calls[k + 3].handle = canvas.calls[k].handle
        /\ OpsAt(k, <<"set_active_buffer", "active_buffer">>)
            => canvas.calls[k + 1].handle
                 = canvas.buffers[(canvas.calls[k].arg % 2) + 1]

C30_Witness ==
    /\ OpsAt(1, <<"set_active_buffer", "active_buffer", "swap_buffers",
                  "active_buffer">>)
    /\ canvas.calls[1].arg = 3
    /\ canvas.calls[4].handle = "buffer0"

----------------------------------------------------------------------------
(* Per-window queues.  A flume unbounded channel is a sequence: try_send    *)
(* appends and fails only when the receiver is gone, try_recv takes the     *)
(* head.  An Instant is named by what was happening when it was read: the   *)
(* posting or the dispatching of an input.  A WindowEventQueue is used by   *)
(* one window; WINDOW_SENDERS is a DashMap, so each call on it is one step. *)

MaxWindowPosts == 2
MaxReceivers == 2
MaxWindows == 2
MaxDrain == 1

QueueIds == {"A", "B"}
Hwnds == 1..MaxWindows
ChannelIds == 1..MaxReceivers
DrainSizes == 0..MaxDrain

\* std::time::Instant::now() read while input is posted or dispatched
InstantOf(at, input) == [at |-> at, input |-> input]

\* a drain that takes everything
DrainAll(queue, n, events) == [events |-> events \o queue, queue |-> <<>>]

\* drain_events: for _ in 0..max_events { match receiver.try_recv() .. }
RECURSIVE DrainLoop(_, _, _)
DrainLoop(queue, n, events) ==
    IF n = 0 \/ queue = <<>> THEN [events |-> events, queue |-> queue]
    ELSE DrainLoop(Tail(queue), n - 1, Append(events, Head(queue)))

\* receiver.len()
PendingCount(queue) == Len(queue)

NoWqCall == [op |-> "new", queue |-> "", max_events |-> 0, events |-> <<>>]

\* WindowEventQueue::new, once per window
NewWq ==
    [ queues |-> [q \in QueueIds |-> <<>>],
      posted |-> 0,          \* observer: the inputs posted so far
      ret    |-> NoWqCall ]  \* the last call and what it returned

\* WindowEventQueue::post, WindowEventSender::post
WqPost(q) ==
    /\ wq.posted < MaxWindowPosts
    /\ LET input == wq.posted + 1
           event == [input |-> input, timestamp |-> InstantOf("post", input)]
       IN  wq' = [wq EXCEPT !.queues[q] = Append(@, event),
                            !.posted = input,
                            !.ret = [op |-> "post", queue |-> q,
                                     max_events |-> 0, events |-> <<>>]]

\* WindowEventQueue::drain_events
WqDrainEvents(q, max_events) ==
    LET drained == DrainLoop(wq.queues[q], max_events, <<>>)
    IN  wq' = [wq EXCEPT !.queues[q] = drained.queue,
                         !.ret = [op |-> "drain_events", queue |-> q,
                                  max_events |-> max_events,
                                  events |-> drained.events]]

NoIntegCall == [op |-> "none", hwnd |-> 0, channel |-> 0, max_events |-> 0,
                events |-> <<>>]

IntegCall(op, hwnd, channel) == [NoIntegCall EXCEPT !.op = op, !.hwnd = hwnd,
                                                    !.channel = channel]

\* the statics of event_bus_integration before any call
NewInteg ==
    [ input_processor |-> FALSE,   \* INPUT_PROCESSOR is Some
      lock            |-> None,    \* the call holding the INPUT_PROCESSOR mutex
      window_senders  |-> <<>>,    \* WINDOW_SENDERS: hwnd -> channel of the sender
      receivers       |-> <<>>,    \* live WindowEventReceivers: channel -> hwnd
      channels        |-> <<>>,    \* channel -> the events queued in it
      next_channel    |-> 0,       \* channels created so far
      posted          |-> 0,       \* observer: inputs posted to windows so far
      stale           |-> {},      \* observer: inputs pending in the bus at a shutdown
      routed          |-> <<>>,    \* observer: channel -> the inputs the callback sent to it
      ret             |-> NoIntegCall ]

\* a send that queues the event twice
TrySendTwice(channels, c, event) ==
    IF c \in DOMAIN channels THEN [channels EXCEPT ![c] = Append(Append(@, event), event)]
    ELSE channels

\* sender.try_send(event); the error of a disconnected channel is ignored
TrySend(channels, c, event) ==
    IF c \in DOMAIN channels THEN [channels EXCEPT ![c] = Append(@, event)]
    ELSE channels

\* WindowEventReceiver::new
ReceiverNew(hwnd) ==
    /\ integ.next_channel < MaxReceivers
    /\ LET c == integ.next_channel + 1
       IN  integ' = [integ EXCEPT
               !.next_channel = c,
               !.channels = With(@, c, <<>>),
               !.receivers = With(@, c, hwnd),
               !.window_senders = With(@, hwnd, c),
               !.ret = IntegCall("new", hwnd, c)]

\* a drop that leaves the registry alone
SenderRemovedNever(window_senders, hwnd) == window_senders

\* Drop for WindowEventReceiver: WINDOW_SENDERS.remove(&hwnd)
SenderRemoved(window_senders, hwnd) == Without(window_senders, hwnd)

\* a WindowEventReceiver is dropped, and its flume::Receiver with it
ReceiverDrop(c) ==
    /\ c \in DOMAIN integ.receivers
    /\ integ' = [integ EXCEPT
           !.window_senders = SenderRemoved(@, integ.receivers[c]),
           !.receivers = Without(@, c),
           !.channels = Without(@, c),
           !.ret = IntegCall("drop", integ.receivers[c], c)]

\* WindowEventReceiver::drain_events
ReceiverDrainEvents(c, max_events) ==
    /\ c \in DOMAIN integ.receivers
    /\ LET drained == DrainLoop(integ.channels[c], max_events, <<>>)
       IN  integ' = [integ EXCEPT
               !.channels[c] = drained.queue,
               !.ret = [IntegCall("drain_events", integ.receivers[c], c)
                           EXCEPT !.max_events = max_events,
                                  !.events = drained.events]]

\* for entry in WINDOW_SENDERS.iter() { entry.value().try_send(event) }
SentToAll(i, event) ==
    LET RECURSIVE Sent(_, _)
        Sent(channels, hwnds) ==
            IF hwnds = {} THEN channels
            ELSE LET h == CHOOSE x \in hwnds : TRUE
                 IN  Sent(TrySend(channels, i.window_senders[h], event),
                          hwnds \ {h})
    IN  Sent(i.channels, DOMAIN i.window_senders)

\* a post that reaches every registered window
PostedToAll(i, hwnd, event) == SentToAll(i, event)

\* post_input_event_for_window: if let Some(sender) = WINDOW_SENDERS.get(..)
Posted(i, hwnd, event) ==
    IF hwnd \in DOMAIN i.window_senders
    THEN TrySend(i.channels, i.window_senders[hwnd], event)
    ELSE i.channels

\* post_input_event_for_window
PostInputEventForWindow(hwnd) ==
    /\ integ.posted < MaxWindowPosts
    /\ LET input == integ.posted + 1
           event == [input |-> input, timestamp |-> InstantOf("post", input),
                     sequence_number |-> 0]
       IN  integ' = [integ EXCEPT
               !.channels = Posted(integ, hwnd, event),
               !.posted = input,
               !.ret = IntegCall("post_input_event_for_window", hwnd, 0)]

\* the routing callback set by initialize_event_bus: one new Event for every
\* entry of WINDOW_SENDERS
Routed(i, input) ==
    SentToAll(i, [input |-> input,
                  timestamp |-> InstantOf("dispatch", input),
                  sequence_number |-> 0])

\* a check that never finds a processor
AlreadyInitializedNever(i) == FALSE

\* initialize_event_bus: processor_guard.is_some()
AlreadyInitialized(i) == i.input_processor

\* InputProcessorThread::new, set_callback with the routing callback, start;
\* the observers of the callback go on
StartedProcessor(p) ==
    [p EXCEPT !.running = TRUE,
              !.thread_handle = Some(Worker),
              !.callback = Some("route"),
              !.worker = "loop",
              !.events = <<>>,
              !.call = "start"]

\* initialize_event_bus, under the INPUT_PROCESSOR mutex
InitializeEventBus ==
    /\ integ.lock = None
    /\ IF AlreadyInitialized(integ)
       THEN /\ integ' = [integ EXCEPT !.ret = IntegCall("initialize_already", 0, 0)]
            /\ UNCHANGED proc
       ELSE /\ integ' = [integ EXCEPT !.input_processor = TRUE,
                                      !.ret = IntegCall("initialize", 0, 0)]
            /\ proc' = StartedProcessor(proc)
    /\ UNCHANGED <<ringVars, busVars>>

\* shutdown_event_bus up to the join inside processor.stop(); with no
\* processor the whole call
ShutdownBegin ==
    /\ integ.lock = None
    /\ IF integ.input_processor
       THEN /\ StopBegin
            /\ integ' = [integ EXCEPT !.input_processor = FALSE,
                                      !.lock = Some("shutdown"),
                                      !.ret = IntegCall("shutdown", 0, 0)]
       ELSE /\ integ' = [integ EXCEPT !.window_senders = <<>>,
                                      !.ret = IntegCall("shutdown_returned", 0, 0)]
            /\ UNCHANGED <<proc, ringVars, busVars>>

\* the inputs push has accepted that the callback has not been called with
PendingInputs == (1..bus_obs.returned) \ {proc.invoked[k] : k \in 1..Len(proc.invoked)}

\* shutdown_event_bus from the join on: WINDOW_SENDERS.clear()
ShutdownJoin ==
    /\ integ.lock = Some("shutdown")
    /\ StopJoin
    /\ integ' = [integ EXCEPT !.lock = None,
                              !.window_senders = <<>>,
                              !.stale = @ \cup PendingInputs,
                              !.ret = IntegCall("shutdown_returned", 0, 0)]

\* run_loop leaves the while loop; a turn of the loop on an empty bus changes
\* nothing
WorkerExits ==
    /\ ~proc.running
    /\ RunLoopCheck

\* the statics of event_bus_integration, the bus empty
InitStatics ==
    /\ rings = <<NewRing(INITIAL_BUFFER_CAPACITY)>>
    /\ current_buffer = 1
    /\ lock = None
    /\ sequence = 0
    /\ stats = NoStats
    /\ bus_obs = NoBusObs
    /\ th = [t \in RingThreads |-> IdleThread]
    /\ obs = NoObs
    /\ snap = NoCall
    /\ NoTex
    /\ proc = NewProc
    /\ integ = NewInteg
    /\ canvas = <<>>
    /\ NoGfx

InitWindows ==
    /\ InitStatics
    /\ wq = <<>>

\* receivers created and dropped, inputs posted to windows, and the processor
\* started and stopped while nothing is posted to the bus
NextWindows ==
    /\ \/ /\ \/ \E hwnd \in Hwnds : ReceiverNew(hwnd)
             \/ \E c \in ChannelIds : ReceiverDrop(c)
             \/ \E c \in ChannelIds, max_events \in DrainSizes :
                    ReceiverDrainEvents(c, max_events)
             \/ \E hwnd \in Hwnds : PostInputEventForWindow(hwnd)
          /\ UNCHANGED <<proc, ringVars, busVars>>
       \/ InitializeEventBus
       \/ ShutdownBegin
       \/ ShutdownJoin
       \/ /\ WorkerExits
          /\ UNCHANGED integ
    /\ UNCHANGED <<harnessVars, texVars, wq, canvas, gfxVars>>

SpecWindows == InitWindows /\ [][NextWindows]_vars

\* the statics after WindowEventReceiver::new for window 1, 2, .. in turn
EachWindowRegistered ==
    [NewInteg EXCEPT !.next_channel = MaxWindows,
                     !.channels = [c \in Hwnds |-> <<>>],
                     !.receivers = [c \in Hwnds |-> c],
                     !.window_senders = [hwnd \in Hwnds |-> hwnd],
                     !.ret = IntegCall("new", MaxWindows, MaxWindows)]

InitQueues ==
    /\ rings = <<NewRing(INITIAL_BUFFER_CAPACITY)>>
    /\ current_buffer = 1
    /\ lock = None
    /\ sequence = 0
    /\ stats = NoStats
    /\ bus_obs = NoBusObs
    /\ th = [t \in RingThreads |-> IdleThread]
    /\ obs = NoObs
    /\ snap = NoCall
    /\ NoTex
    /\ proc = NewProc
    /\ integ = EachWindowRegistered
    /\ canvas = <<>>
    /\ NoGfx
    /\ wq = NewWq

\* windows with a WindowEventQueue of their own beside windows with a
\* registered receiver; MaxWindowPosts inputs are posted in all
NextQueues ==
    /\ \/ /\ \/ /\ wq.posted + integ.posted < MaxWindowPosts
                /\ \E q \in QueueIds : WqPost(q)
             \/ \E q \in QueueIds, max_events \in DrainSizes :
                    WqDrainEvents(q, max_events)
          /\ UNCHANGED integ
       \/ /\ \/ \E c \in ChannelIds, max_events \in DrainSizes :
                    ReceiverDrainEvents(c, max_events)
             \/ /\ wq.posted + integ.posted < MaxWindowPosts
                /\ \E hwnd \in Hwnds : PostInputEventForWindow(hwnd)
          /\ UNCHANGED wq
    /\ UNCHANGED <<ringVars, harnessVars, busVars, texVars, procVars, canvas, gfxVars>>

SpecQueues == InitQueues /\ [][NextQueues]_vars

(* Claims about the per-window queues *)

Min(a, b) == IF a < b THEN a ELSE b

\* the inputs of events grow: the events are in posting order
InPostingOrder(events) ==
    \A j, k \in 1..Len(events) : j < k => events[j].input < events[k].input

\* a drain of max_events from a queue holding before returned events and left
\* after: it took the min(max_events, p) oldest of the p events
DrainedOldest(before, max_events, events, after) ==
    LET p == PendingCount(before)
        n == Min(max_events, p)
    IN  /\ Len(events) = n
        /\ events = SubSeq(before, 1, n)
        /\ InPostingOrder(events)
        /\ after = SubSeq(before, n + 1, p)
        /\ PendingCount(after) = p - n
        /\ p = 0 => events = <<>>

\* every queue and every live receiver can be drained
DrainNeverBlocks ==
    /\ \A q \in QueueIds, max_events \in DrainSizes :
          ENABLED WqDrainEvents(q, max_events)
    /\ \A c \in DOMAIN integ.receivers, max_events \in DrainSizes :
          ENABLED ReceiverDrainEvents(c, max_events)

OtherQueuesUnchanged(q) ==
    \A other \in QueueIds \ {q} : wq'.queues[other] = wq.queues[other]

\* the channels of the receivers of windows other than hwnd are as they were
OtherWindowsUnchanged(hwnd) ==
    \A c \in DOMAIN integ.receivers :
        integ.receivers[c] # hwnd =>
            /\ c \in DOMAIN integ'.channels
            /\ integ'.channels[c] = integ.channels[c]

\* C25: posting to or draining the queue of window A never changes the
\* pending count or the contents of the queue of another window B, for
\* WindowEventQueue and for WindowEventReceiver with
\* post_input_event_for_window
C25_WindowIsolation ==
    [][ /\ (wq' # wq /\ wq'.ret.op \in {"post", "drain_events"}) =>
              /\ OtherQueuesUnchanged(wq'.ret.queue)
              /\ integ'.channels = integ.channels
        /\ (integ' # integ /\ integ'.ret.op \in {"post_input_event_for_window",
                                                 "drain_events"}) =>
              /\ OtherWindowsUnchanged(integ'.ret.hwnd)
              /\ wq'.queues = wq.queues ]_vars

\* an input has just been posted to window 1 while window 2 has one pending
C25_Witness ==
    /\ integ.ret.op = "post_input_event_for_window"
    /\ integ.ret.hwnd = 1
    /\ {1, 2} \subseteq DOMAIN integ.window_senders
    /\ PendingCount(integ.channels[integ.window_senders[1]]) = 1
    /\ PendingCount(integ.channels[integ.window_senders[2]]) = 1

\* C27: post_input_event_for_window(id, input) appends exactly one envelope
\* to the queue registered for id and to no other queue and does not touch
\* the global bus; when no sender is registered for id, or the receiver is
\* gone, no queue, registry entry or bus state changes
C27_PostForWindow ==
    [][ (integ' # integ /\ integ'.ret.op = "post_input_event_for_window") =>
          LET hwnd == integ'.ret.hwnd
              registered == /\ hwnd \in DOMAIN integ.window_senders
                            /\ integ.window_senders[hwnd] \in DOMAIN integ.channels
          IN  /\ integ'.window_senders = integ.window_senders
              /\ integ'.receivers = integ.receivers
              /\ DOMAIN integ'.channels = DOMAIN integ.channels
              /\ UNCHANGED <<ringVars, busVars, proc>>
              /\ \A c \in DOMAIN integ.channels :
                    IF registered /\ c = integ.window_senders[hwnd]
                    THEN /\ Len(integ'.channels[c]) = Len(integ.channels[c]) + 1
                         /\ SubSeq(integ'.channels[c], 1, Len(integ.channels[c]))
                               = integ.channels[c]
                         /\ integ'.channels[c][Len(integ'.channels[c])].input
                               = integ'.posted
                    ELSE integ'.channels[c] = integ.channels[c] ]_vars

\* the second input has just been posted to a window with no receiver, after
\* the first was queued for the other window
C27_Witness ==
    /\ integ.ret.op = "post_input_event_for_window"
    /\ integ.ret.hwnd = 2
    /\ integ.posted = 2
    /\ 2 \notin DOMAIN integ.window_senders
    /\ 1 \in DOMAIN integ.window_senders
    /\ PendingCount(integ.channels[integ.window_senders[1]]) = 1

\* C24: the registry holds a sender for window id w if and only if a live
\* receiver for w exists, and the registered sender feeds a live receiver
\* of w
C24_RegistryMatchesReceivers ==
    \A w \in Hwnds :
        /\ w \in DOMAIN integ.window_senders
             <=> \E c \in DOMAIN integ.receivers : integ.receivers[c] = w
        /\ w \in DOMAIN integ.window_senders =>
             /\ integ.window_senders[w] \in DOMAIN integ.receivers
             /\ integ.receivers[integ.window_senders[w]] = w

----------------------------------------------------------------------------
(* The event bus behind event_bus_integration: post_input_event pushes to   *)
(* EVENT_BUS, the worker started by initialize_event_bus pops batches and   *)
(* the routing callback sends each input to the registered windows.         *)

MaxPosts == 4

\* the channels the routing callback sends to
RoutedTo(i) == {i.window_senders[h] : h \in DOMAIN i.window_senders} \cap DOMAIN i.channels

\* the observer of the routing callback after input was sent
RoutedNext(i, input) ==
    [c \in DOMAIN i.routed \cup RoutedTo(i) |->
        (IF c \in DOMAIN i.routed THEN i.routed[c] ELSE <<>>)
            \o (IF c \in RoutedTo(i) THEN <<input>> ELSE <<>>)]

\* run_loop: cb(event.input) with the routing callback, one turn
RouteDispatch ==
    /\ RunLoopDispatch
    /\ integ' = IF proc'.invoked = proc.invoked THEN integ
                ELSE LET input == proc'.invoked[Len(proc'.invoked)]
                     IN  [integ EXCEPT !.channels = Routed(integ, input),
                                       !.routed = RoutedNext(integ, input)]

\* a step of the worker thread started by initialize_event_bus
RoutingWorkerStep ==
    \/ /\ \/ RunLoopCheck
          \/ RunLoopPopBegin
          \/ RunLoopPop
          \/ RunLoopLockCallback
       /\ UNCHANGED integ
    \/ RouteDispatch

\* post_input_event: EVENT_BUS.push(input), a step of it
PostInputEvent ==
    /\ BusPushStep(Poster, MaxPosts) \/ RingStep(Poster)
    /\ UNCHANGED <<proc, integ>>

NextInteg ==
    /\ \/ InitializeEventBus
       \/ ShutdownBegin
       \/ ShutdownJoin
       \/ RoutingWorkerStep
       \/ PostInputEvent
    /\ UNCHANGED <<harnessVars, texVars, wq, canvas, gfxVars>>

SpecInteg == InitWindows /\ [][NextInteg]_vars

\* the windows register their receivers, then the bus is initialized and
\* stays so; the main thread posts inputs to the bus from its message
\* handlers and drains the queues of its windows between two posts
NextRouting ==
    /\ \/ /\ ~integ.input_processor
          /\ \E hwnd \in Hwnds : ReceiverNew(hwnd)
          /\ UNCHANGED <<proc, ringVars, busVars>>
       \/ /\ th[Poster].pc = "idle"
          /\ \E c \in ChannelIds : ReceiverDrainEvents(c, MaxDrain)
          /\ UNCHANGED <<proc, ringVars, busVars>>
       \/ InitializeEventBus
       \/ RoutingWorkerStep
       \/ /\ integ.input_processor
          /\ PostInputEvent
    /\ UNCHANGED <<harnessVars, texVars, wq, canvas, gfxVars>>

SpecRouting == InitWindows /\ [][NextRouting]_vars

\* the bus is initialized and stays so while inputs are posted to it
NextRunning ==
    /\ \/ InitializeEventBus
       \/ RoutingWorkerStep
       \/ PostInputEvent
    /\ UNCHANGED <<harnessVars, texVars, wq, canvas, gfxVars>>

SpecRunning == InitWindows /\ [][NextRunning]_vars

\* the worker and the posting thread take the steps they can take
SpecRunningFair ==
    /\ SpecRunning
    /\ WF_vars(RoutingWorkerStep /\ UNCHANGED <<harnessVars, texVars, wq, canvas, gfxVars>>)
    /\ WF_vars(PostInputEvent /\ UNCHANGED <<harnessVars, texVars, wq, canvas, gfxVars>>)

(* Claims about the event bus behind event_bus_integration *)

\* C21: while the processor keeps running with a callback configured and the
\* worker is scheduled fairly, every event accepted by EventBus::push is
\* eventually passed to the callback, and once the producer has stopped
\* total_events_popped eventually equals total_events_pushed
C21_EventuallyDelivered ==
    /\ \A i \in 1..MaxPosts :
          (proc.running /\ IsSome(proc.callback) /\ bus_obs.returned >= i)
              ~> (i \in SeqToSet(proc.invoked))
    /\ (proc.running /\ IsSome(proc.callback) /\ bus_obs.returned = MaxPosts)
          ~> (stats.total_events_popped = stats.total_events_pushed)

\* C22: events still pending in the global bus when the processor is stopped
\* by shutdown_event_bus are never passed to a dispatch callback afterwards,
\* a later initialize_event_bus included
C22_ShutdownDropsPending ==
    SeqToSet(proc.invoked) \cap integ.stale = {}

RoutedInputs(c) == IF c \in DOMAIN integ.routed THEN integ.routed[c] ELSE <<>>

\* the receiver of channel c is the one registered for its window
IsRegistered(c) ==
    /\ integ.receivers[c] \in DOMAIN integ.window_senders
    /\ integ.window_senders[integ.receivers[c]] = c

\* every post has returned, the bus is empty and the worker is back at the
\* head of its loop with nothing in hand
RoutingQuiescent ==
    /\ bus_obs.returned = MaxPosts
    /\ BusDrained
    /\ lock = None
    /\ proc.worker = "loop"
    /\ proc.events = <<>>

\* C28: for every event posted with post_input_event while the bus is
\* initialized, the routing callback delivers exactly one envelope to each
\* registered window, in the order the bus delivered the events: no window
\* gets an input twice or out of delivery order, and once the bus has been
\* emptied every registered window has got every posted input
C28_OneEnvelopePerWindow ==
    \A c \in DOMAIN integ.receivers :
        /\ NoDuplicates(RoutedInputs(c))
        /\ IsRegistered(c) => RoutedInputs(c) = proc.invoked
        /\ (RoutingQuiescent /\ IsRegistered(c)) =>
               \A i \in 1..bus_obs.returned : i \in SeqToSet(RoutedInputs(c))

\* the sequence number push gave to the event that carried input
SeqNoAssigned(input) ==
    (CHOOSE ev \in SeqToSet(bus_obs.delivered) : ev.input = input).sequence_number

\* C29: every envelope a window drains carries the sequence number and the
\* timestamp assigned when its input was posted: the sequence numbers of the
\* envelopes drained are strictly increasing and the timestamp is the one
\* read at post time, not at dispatch time
C29_EnvelopeKeepsPostStamp ==
    integ.ret.op = "drain_events" =>
        LET events == integ.ret.events
        IN  /\ \A k \in 1..Len(events) :
                  /\ events[k].sequence_number = SeqNoAssigned(events[k].input)
                  /\ events[k].timestamp = InstantOf("post", events[k].input)
            /\ \A j, k \in 1..Len(events) :
                  j < k => events[j].sequence_number < events[k].sequence_number

(* Further claims about the ring and the bus *)

\* b is a or ahead of a by less than half the counter range
NotBehind(a, b) == WrappingSub(b, a) < USIZE_MOD \div 2

\* C38: under any interleaving of concurrent try_push and try_pop callers,
\* head and tail never decrease (modulo wrap-around) and head never passes
\* tail
C38_CountersMonotonic ==
    [][ /\ NotBehind(rings[TheRing].head, rings'[TheRing].head)
        /\ NotBehind(rings[TheRing].tail, rings'[TheRing].tail)
        /\ NotBehind(rings'[TheRing].head, rings'[TheRing].tail) ]_vars

\* the ring the bus holds
CurrentRing == rings[current_buffer]

\* C33: the ring capacity only changes by doubling from the initial capacity
\* and never exceeds the hard maximum; a push that finds the ring full at
\* maximum capacity panics instead of dropping the event silently or growing
\* further, and buffer_expansions counts exactly the doublings performed
C33_Overload ==
    [][ /\ CurrentRing.capacity
              = INITIAL_BUFFER_CAPACITY * 2 ^ stats.buffer_expansions
        /\ CurrentRing.capacity <= MAX_BUFFER_CAPACITY
        /\ current_buffer' # current_buffer =>
              /\ rings'[current_buffer'].capacity = 2 * CurrentRing.capacity
              /\ stats'.buffer_expansions = stats.buffer_expansions + 1
        /\ stats'.buffer_expansions # stats.buffer_expansions =>
              current_buffer' # current_buffer
        /\ \A t \in RingThreads :
              ( /\ th[t].pc = "expand_tried"
                /\ th'[t] # th[t]
                /\ th[t].res = Some(FALSE)
                /\ CurrentRing.capacity = MAX_BUFFER_CAPACITY ) =>
                    /\ th'[t].pc = "panicked"
                    /\ UNCHANGED <<rings, current_buffer, stats, bus_obs>> ]_vars

\* a push has panicked on the full ring of maximum capacity after two
\* doublings
C33_Witness ==
    /\ th["s"].pc = "panicked"
    /\ stats.buffer_expansions = MaxCapLog2 - InitialCapLog2
    /\ CurrentRing.capacity = MAX_BUFFER_CAPACITY
    /\ RingLen(CurrentRing) = MAX_BUFFER_CAPACITY

\* no push and no try_pop_batch is in progress
BusQuiescent ==
    /\ \A t \in RingThreads : th[t].pc \in {"idle", "panicked"}
    /\ lock = None

\* C40: in every quiescent state total_events_pushed - total_events_popped
\* = len(), across expansions as well, and max_buffer_size equals the
\* capacity of the current ring
C40_BusAccounting ==
    BusQuiescent =>
        /\ stats.total_events_pushed - stats.total_events_popped = BusLen
        /\ stats.max_buffer_size = CurrentRing.capacity

(* Further claims about the input processor *)

\* the worker holds a batch it has not finished
BatchInHand == proc.worker \in {"lock_callback", "dispatch"} /\ proc.events # <<>>

\* C39: every event the worker pops is passed to the callback before the
\* worker exits: the running flag is read only between batches, so a stop()
\* in the middle of a batch lets the batch finish, and once the worker has
\* exited, the events popped while a callback was configured were all
\* passed to it, so that the invocations equal total_events_popped when the
\* callback was there from the start
C39_BatchFinishes ==
    /\ [][ /\ BatchInHand => proc'.worker # "exited"
           /\ proc'.dropped # proc.dropped => proc.callback = None ]_vars
    /\ [](proc.worker = "exited" =>
             /\ proc.events = <<>>
             /\ Len(proc.invoked) + proc.dropped = stats.total_events_popped)

\* the worker has exited after a stop() that came while a batch was in hand,
\* and every popped event went to the callback
C39_Witness ==
    /\ proc.worker = "exited"
    /\ IsSome(proc.callback)
    /\ proc.dropped = 0
    /\ Len(proc.invoked) = stats.total_events_popped
    /\ Len(proc.invoked) >= MaxBatch

----------------------------------------------------------------------------
(* GpuCanvasSource shared between threads, and the GpuCanvas element.  The  *)
(* source is cloned (derive(Clone)): a clone has its own copy of the two    *)
(* handles and shares the index through the Arc.  swap_buffers is one       *)
(* atomic read-modify-write, active_buffer is a load followed by the        *)
(* indexing of the caller's own handles.  The element owns a clone; its     *)
(* prepaint and paint are separate steps of one frame.                      *)

MaxSwaps == 3

CanvasThreads == {"producer", "helper"}
CanvasClones == {"source", "clone"}

\* GpuCanvasSource::new followed by clone(); gpu_canvas(source) with no frame
\* drawn yet
NewSharedCanvas ==
    [ active_buffer |-> 0,
      buffers       |-> [c \in CanvasClones |-> <<"buffer0", "buffer1">>],
      loaded        |-> None,     \* active_buffer: the index loaded
      returned      |-> "",       \* active_buffer: the handle last returned
      frame         |-> "idle",   \* the element: "idle", "prepainted", "painted"
      prepaint      |-> "",       \* the element's PrepaintState
      painted       |-> "",       \* the handle given to paint_gpu_texture
      initial       |-> 0,        \* observer: the index before the swaps counted
      swaps         |-> [t \in CanvasThreads |-> 0],  \* observer: swaps completed
      at_prepaint   |-> 0,        \* observer: the index when prepaint ran
      changed       |-> FALSE ]   \* observer: the index was written since prepaint

\* the swap_buffers calls completed since the index was last set
SwapsCompleted == canvas.swaps["producer"] + canvas.swaps["helper"]

\* swap_buffers called by thread t on clone c
SwapBuffersOn(t, c) ==
    /\ SwapsCompleted < MaxSwaps
    /\ canvas' = [canvas EXCEPT
           !.active_buffer = XorOne(@),
           !.swaps[t] = @ + 1,
           !.changed = @ \/ canvas.frame = "prepainted"]

\* set_active_buffer(index) called on clone c
SetActiveBufferOn(c, index) ==
    canvas' = [canvas EXCEPT
        !.active_buffer = index % 2,
        !.initial = index % 2,
        !.swaps = [t \in CanvasThreads |-> 0],
        !.changed = @ \/ canvas.frame = "prepainted"]

\* active_buffer: let index = self.active_buffer.load(Acquire)
ActiveBufferLoad ==
    /\ canvas.loaded = None
    /\ canvas' = [canvas EXCEPT !.loaded = Some(canvas.active_buffer)]

\* active_buffer: &self.buffers[index % 2], on clone c
ActiveBufferReturn(c) ==
    /\ IsSome(canvas.loaded)
    /\ canvas' = [canvas EXCEPT
           !.returned = canvas.buffers[c][(Unwrap(canvas.loaded) % 2) + 1],
           !.loaded = None]

\* GpuCanvas::prepaint: self.source.active_buffer().clone()
Prepaint ==
    /\ canvas.frame \in {"idle", "painted"}
    /\ canvas' = [canvas EXCEPT
           !.frame = "prepainted",
           !.prepaint = canvas.buffers["clone"][(canvas.active_buffer % 2) + 1],
           !.at_prepaint = canvas.active_buffer,
           !.changed = FALSE]

\* a paint that asks the source again
PaintedHandleNow(prepaint) ==
    canvas.buffers["clone"][(canvas.active_buffer % 2) + 1]

\* GpuCanvas::paint: the handle given to window.paint_gpu_texture
PaintedHandle(prepaint) == prepaint

\* GpuCanvas::paint
Paint ==
    /\ canvas.frame = "prepainted"
    /\ canvas' = [canvas EXCEPT
           !.frame = "painted",
           !.painted = PaintedHandle(canvas.prepaint)]

InitShared ==
    /\ NoBus
    /\ NoTex
    /\ NoProc
    /\ rings = <<>>
    /\ th = <<>>
    /\ obs = NoObs
    /\ snap = NoCall
    /\ wq = <<>>
    /\ integ = <<>>
    /\ NoGfx
    /\ canvas = NewSharedCanvas

NextShared ==
    /\ \/ \E t \in CanvasThreads, c \in CanvasClones : SwapBuffersOn(t, c)
       \/ \E c \in CanvasClones, index \in CanvasIndexes : SetActiveBufferOn(c, index)
       \/ ActiveBufferLoad
       \/ ActiveBufferReturn("clone")
       \/ Prepaint
       \/ Paint
    /\ UNCHANGED <<ringVars, harnessVars, busVars, texVars, procVars, wq, integ, gfxVars>>

SpecShared == InitShared /\ [][NextShared]_vars

(* Claims about the shared source and the element *)

\* C31: when k swap_buffers calls from any threads, on the source or on its
\* clones, have completed, the active index is the initial index XOR
\* (k mod 2), and a concurrent active_buffer caller always gets one of the two
\* handles
C31_SwapsCounted ==
    /\ canvas.active_buffer
         = (canvas.initial + SwapsCompleted) % 2
    /\ canvas.returned \in {"", "buffer0", "buffer1"}
    /\ IsSome(canvas.loaded) => Unwrap(canvas.loaded) \in {0, 1}

\* both threads have swapped, an odd number of times in all, while a
\* compositor was inside active_buffer
C31_Witness ==
    /\ canvas.swaps["producer"] >= 1
    /\ canvas.swaps["helper"] >= 1
    /\ SwapsCompleted = MaxSwaps
    /\ canvas.active_buffer = (canvas.initial + MaxSwaps) % 2
    /\ canvas.loaded = Some((canvas.initial + 1) % 2)
    /\ canvas.returned = "buffer0"

\* C32: within one frame the element gives the paint primitive the handle
\* that was active at prepaint, whatever the producer did to the index in
\* between, and paint does not change the index
C32_FrameHandle ==
    /\ [](canvas.frame = "painted" =>
             canvas.painted = canvas.buffers["clone"][(canvas.at_prepaint % 2) + 1])
    /\ [][ (canvas.frame = "prepainted" /\ canvas'.frame = "painted") =>
               canvas'.active_buffer = canvas.active_buffer ]_vars

\* a frame was painted after the index had moved away from the one prepaint
\* saw
C32_Witness ==
    /\ canvas.frame = "painted"
    /\ canvas.changed
    /\ canvas.active_buffer # canvas.at_prepaint
    /\ canvas.painted = "buffer0"
    /\ canvas.at_prepaint = 0

----------------------------------------------------------------------------
(* export_texture_as_dmabuf, in the form built for linux and freebsd and in *)
(* the stub built elsewhere.  What blade and the Vulkan driver answer is an *)
(* input of the call: whether the texture has memory, whether the external  *)
(* memory fd extension is there, and the fd or the error vkGetMemoryFdKHR   *)
(* gives.  Widths stay far below 2^30, where width * 4 fits a u32.          *)

MaxExtent == 3

Extents == 1..MaxExtent
TextureFormats == {"Bgra8Unorm", "Rgba8Unorm"}
ExporterForms == {"full", "stub"}
\* vkGetMemoryFdKHR: a file descriptor, or the failure of the call
DriverAnswers == {[ok |-> TRUE, fd |-> 3], [ok |-> TRUE, fd |-> 4],
                  [ok |-> FALSE, fd |-> -1]}

\* anyhow::Result<Option<SharedTextureHandle>>
OkOf(handle) == [ok |-> TRUE, handle |-> handle, error |-> ""]
ErrOf(message) == [ok |-> FALSE, handle |-> None, error |-> message]

\* export_texture_as_dmabuf, cfg(any(target_os = "linux", target_os = "freebsd"))
ExportFull(has_memory, has_ext, driver, width, height, format) ==
    IF ~has_memory THEN ErrOf("Texture has no memory")
    ELSE IF ~has_ext THEN ErrOf("External memory FD extension not available")
    ELSE IF ~driver.ok THEN ErrOf("Failed to export memory as DMA-BUF FD")
    ELSE OkOf(Some([ variant  |-> "DmaBuf",
                     fd       |-> driver.fd,
                     modifier |-> 0,
                     size     |-> [width |-> width, height |-> height],
                     format   |-> format,
                     stride   |-> width * 4 ]))

\* export_texture_as_dmabuf, cfg(not(any(..)))
ExportStub(has_memory, has_ext, driver, width, height, format) == OkOf(None)

\* one call of the exporter of the build
ExportTextureAsDmabuf ==
    \E has_memory \in BOOLEAN, has_ext \in BOOLEAN, driver \in DriverAnswers,
       width \in Extents, height \in Extents, format \in TextureFormats :
        dmabuf' = [ form       |-> dmabuf.form,
                    called     |-> TRUE,
                    has_memory |-> has_memory,
                    has_ext    |-> has_ext,
                    driver     |-> driver,
                    width      |-> width,
                    height     |-> height,
                    format     |-> format,
                    ret |-> IF dmabuf.form = "full"
                            THEN ExportFull(has_memory, has_ext, driver,
                                            width, height, format)
                            ELSE ExportStub(has_memory, has_ext, driver,
                                            width, height, format) ]

InitExport ==
    /\ NoBus
    /\ NoTex
    /\ NoProc
    /\ rings = <<>>
    /\ th = <<>>
    /\ obs = NoObs
    /\ snap = NoCall
    /\ wq = <<>>
    /\ integ = <<>>
    /\ canvas = <<>>
    /\ atlas = <<>>
    /\ \E form \in ExporterForms :
          dmabuf = [ form |-> form, called |-> FALSE, has_memory |-> FALSE,
                     has_ext |-> FALSE, driver |-> [ok |-> FALSE, fd |-> -1],
                     width |-> 1, height |-> 1, format |-> "Bgra8Unorm",
                     ret |-> OkOf(None) ]

NextExport ==
    /\ ExportTextureAsDmabuf
    /\ UNCHANGED <<ringVars, harnessVars, busVars, texVars, procVars, wq, integ,
                   canvas, atlas>>

SpecExport == InitExport /\ [][NextExport]_vars

(* Claims about the exporter *)

\* C34: in both forms the exporter answers a missing capability (no external
\* memory fd extension, or a texture without exportable memory) with
\* Ok(None), never with an error, and on success the full form returns a
\* DmaBuf handle with modifier 0, stride = width * 4 and the driver's fd
C34_MissingCapabilityIsNone ==
    dmabuf.called =>
        /\ (~dmabuf.has_memory \/ ~dmabuf.has_ext) => dmabuf.ret = OkOf(None)
        /\ ( /\ dmabuf.form = "full"
             /\ dmabuf.ret.ok
             /\ IsSome(dmabuf.ret.handle) ) =>
               LET handle == Unwrap(dmabuf.ret.handle)
               IN  /\ handle.variant = "DmaBuf"
                   /\ handle.modifier = 0
                   /\ handle.stride = dmabuf.width * 4
                   /\ dmabuf.driver.ok
                   /\ handle.fd = dmabuf.driver.fd

----------------------------------------------------------------------------
(* The tile atlas of DirectXAtlas and MetalAtlas: tiles_by_key and the two  *)
(* texture lists.  Every call runs under the atlas mutex, so a call is one  *)
(* step.  A size is a number of units; a texture's allocator is the units   *)
(* it can hold and the units handed out, and since neither atlas ever       *)
(* gives a rectangle back to the allocator the units handed out only grow.  *)
(* What the GPU answers when a texture is created is an input of the call.  *)
(* A list stops growing at MaxSlots slots.                                  *)

\* DEFAULT_ATLAS_SIZE and MAX_ATLAS_SIZE in units, scaled down from 1024 and
\* 16384 pixels a side
DefaultAtlasUnits == 2
MaxAtlasUnits == 3
MaxSlots == 2
\* width of live_atlas_keys in the model, scaled down from 32
KeyCountBits == 2

AtlasBackends == {"D3D11", "Metal"}
AtlasKinds == {"Monochrome", "Polychrome"}
AtlasKeys == {"glyph_a", "glyph_b", "image_c"}
TileSizes == 1..(MaxAtlasUnits + 1)
KeyCountMod == 2 ^ KeyCountBits

\* AtlasKey::texture_kind
TextureKindOf(key) == IF key = "image_c" THEN "Polychrome" ELSE "Monochrome"

\* the answers of the device while push_texture creates a texture:
\* CreateTexture2D and CreateShaderResourceView can fail, new_texture cannot
GpuAnswers(b) ==
    IF b = "D3D11" THEN {"ok", "texture_failed", "view_failed"} ELSE {"ok"}

NoAtlasCall == [op |-> "none", key |-> "", result |-> "", gpu |-> "none"]

\* DirectXAtlas::new, MetalAtlas::new: the tile side
NewAtlas(b) ==
    [ backend      |-> b,
      lists        |-> [kind \in AtlasKinds |->
                           [textures |-> <<>>, free_list |-> <<>>]],
      tiles_by_key |-> [key \in AtlasKeys |-> None],
      ret          |-> NoAtlasCall ]

\* push_texture: min_size.min(&MAX_ATLAS_SIZE).max(&DEFAULT_ATLAS_SIZE)
AtlasSize(min_size) ==
    LET capped == IF min_size < MaxAtlasUnits THEN min_size ELSE MaxAtlasUnits
    IN  IF capped > DefaultAtlasUnits THEN capped ELSE DefaultAtlasUnits

\* self.allocator.allocate(size.into()) finds room
HasRoom(texture, size) == texture.used + size <= texture.capacity

\* DirectXAtlasTexture::allocate, MetalAtlasTexture::allocate: the texture
\* after a successful allocation
TextureAllocate(texture, size) ==
    [texture EXCEPT !.used = @ + size,
                    !.live_atlas_keys = (@ + 1) % KeyCountMod]

\* the AtlasTile allocate returns
TileOf(texture, size) == [texture_id |-> texture.id, size |-> size]

\* allocate: textures.iter_mut().rev().find_map(|texture| texture.allocate(size)),
\* the position of the texture found, 0 when none has room
LastFit(textures, size) ==
    LET fits == {p \in 1..Len(textures) :
                   IsSome(textures[p]) /\ HasRoom(Unwrap(textures[p]), size)}
    IN  IF fits = {} THEN 0 ELSE CHOOSE p \in fits : \A q \in fits : q <= p

\* push_texture with the device giving the answer: the list afterwards and the
\* index of the texture created, if one was
PushTexture(list, min_size, kind, answer) ==
    LET free   == list.free_list
        index  == IF free = <<>> THEN None ELSE Some(free[Len(free)])
        popped == IF free = <<>> THEN free ELSE SubSeq(free, 1, Len(free) - 1)
        ix     == IF IsSome(index) THEN Unwrap(index) ELSE Len(list.textures)
        atlas_texture == [ id              |-> [index |-> ix, kind |-> kind],
                           capacity        |-> AtlasSize(min_size),
                           used            |-> 0,
                           live_atlas_keys |-> 0 ]
    IN  IF answer = "texture_failed" THEN [list |-> list, at |-> None]
        ELSE IF answer = "view_failed"
        THEN [list |-> [list EXCEPT !.free_list = popped], at |-> None]
        ELSE [list |-> [ textures |->
                           IF IsSome(index)
                           THEN [list.textures EXCEPT ![ix + 1] = Some(atlas_texture)]
                           ELSE Append(list.textures, Some(atlas_texture)),
                         free_list |-> popped ],
              at |-> Some(ix)]

\* DirectXAtlasState::allocate, MetalAtlasState::allocate: the list of the
\* kind afterwards, the tile if there is one, and whether the device was asked
AtlasAllocate(list, size, kind, answer) ==
    LET fit == LastFit(list.textures, size)
    IN  IF fit # 0
        THEN [list |-> [list EXCEPT !.textures[fit] =
                           Some(TextureAllocate(Unwrap(@), size))],
              tile |-> Some(TileOf(Unwrap(list.textures[fit]), size)),
              gpu  |-> "none"]
        ELSE LET pushed == PushTexture(list, size, kind, answer)
             IN  IF pushed.at = None
                 THEN [list |-> pushed.list, tile |-> None, gpu |-> answer]
                 ELSE LET pos == Unwrap(pushed.at) + 1
                          texture == Unwrap(pushed.list.textures[pos])
                      IN  IF HasRoom(texture, size)
                          THEN [list |-> [pushed.list EXCEPT !.textures[pos] =
                                            Some(TextureAllocate(texture, size))],
                                tile |-> Some(TileOf(texture, size)),
                                gpu  |-> answer]
                          ELSE [list |-> pushed.list, tile |-> None, gpu |-> answer]

\* PlatformAtlas::get_or_insert_with(key, build); build answers None or the
\* size of the tile
GetOrInsertWith(key, build, answer) ==
    LET kind == TextureKindOf(key)
        done == AtlasAllocate(atlas.lists[kind], Unwrap(build), kind, answer)
        call == [op |-> "get_or_insert_with", key |-> key, result |-> "",
                 gpu |-> "none"]
    IN  IF IsSome(atlas.tiles_by_key[key])
        THEN /\ answer = "ok"
             /\ atlas' = [atlas EXCEPT !.ret = [call EXCEPT !.result = "tile"]]
        ELSE IF build = None
        THEN /\ answer = "ok"
             /\ atlas' = [atlas EXCEPT !.ret = [call EXCEPT !.result = "no_tile"]]
        ELSE /\ done.gpu = "none" => answer = "ok"
             /\ Len(done.list.textures) <= MaxSlots
             /\ atlas' = [atlas EXCEPT
                    !.lists[kind] = done.list,
                    !.tiles_by_key[key] = IF IsSome(done.tile) THEN done.tile ELSE @,
                    !.ret = [call EXCEPT
                               !.result = IF IsSome(done.tile) THEN "tile"
                                          ELSE "error",
                               !.gpu = done.gpu]]

\* remove: the texture list after a texture gave up one key; the slot is
\* emptied and its index pushed when no key is left
DecrementRefCount(list, pos, index) ==
    LET texture == Unwrap(list.textures[pos])
        live_atlas_keys == (texture.live_atlas_keys + KeyCountMod - 1) % KeyCountMod
    IN  IF live_atlas_keys = 0
        THEN [ textures  |-> [list.textures EXCEPT ![pos] = None],
               free_list |-> Append(list.free_list, index) ]
        ELSE [list EXCEPT !.textures[pos] =
                 Some([texture EXCEPT !.live_atlas_keys = live_atlas_keys])]

\* PlatformAtlas::remove of DirectXAtlas
D3DAtlasRemove(key) ==
    LET tile == atlas.tiles_by_key[key]
        id   == Unwrap(tile).texture_id
        list == atlas.lists[id.kind]
        pos  == id.index + 1
        call == [op |-> "remove", key |-> key, result |-> "returned",
                 gpu |-> "none"]
    IN  IF tile = None
        THEN atlas' = [atlas EXCEPT !.ret = call]
        ELSE IF pos > Len(list.textures) \/ list.textures[pos] = None
        THEN atlas' = [atlas EXCEPT !.tiles_by_key[key] = None, !.ret = call]
        ELSE \/ /\ Unwrap(list.textures[pos]).live_atlas_keys = 0
                /\ atlas' = [atlas EXCEPT
                       !.tiles_by_key[key] = None,
                       !.lists[id.kind].textures[pos] = None,
                       !.ret = [call EXCEPT !.result = "panic"]]
             \/ atlas' = [atlas EXCEPT
                    !.tiles_by_key[key] = None,
                    !.lists[id.kind] = DecrementRefCount(list, pos, id.index),
                    !.ret = call]

\* PlatformAtlas::remove of MetalAtlas
MetalAtlasRemove(key) ==
    LET tile == atlas.tiles_by_key[key]
        id   == Unwrap(tile).texture_id
        list == atlas.lists[id.kind]
        found == {p \in 1..Len(list.textures) :
                    IsSome(list.textures[p]) /\ Unwrap(list.textures[p]).id = id}
        pos  == CHOOSE p \in found : \A q \in found : p <= q
        after == DecrementRefCount(list, pos, id.index)
        call == [op |-> "remove", key |-> key, result |-> "returned",
                 gpu |-> "none"]
    IN  IF tile = None \/ found = {}
        THEN atlas' = [atlas EXCEPT !.ret = call]
        ELSE \/ /\ Unwrap(list.textures[pos]).live_atlas_keys = 0
                /\ atlas' = [atlas EXCEPT
                       !.lists[id.kind].textures[pos] = None,
                       !.ret = [call EXCEPT !.result = "panic"]]
             \/ atlas' = [atlas EXCEPT
                    !.lists[id.kind] = after,
                    !.tiles_by_key[key] = IF after.textures[pos] = None
                                          THEN None ELSE @,
                    !.ret = call]

\* PlatformAtlas::remove
AtlasRemove(key) ==
    IF atlas.backend = "D3D11" THEN D3DAtlasRemove(key) ELSE MetalAtlasRemove(key)

InitTiles ==
    /\ NoBus
    /\ NoTex
    /\ NoProc
    /\ rings = <<>>
    /\ th = <<>>
    /\ obs = NoObs
    /\ snap = NoCall
    /\ wq = <<>>
    /\ integ = <<>>
    /\ canvas = <<>>
    /\ dmabuf = <<>>
    /\ \E b \in AtlasBackends : atlas = NewAtlas(b)

NextTiles ==
    /\ \/ \E key \in AtlasKeys, size \in TileSizes,
             answer \in GpuAnswers(atlas.backend) :
             GetOrInsertWith(key, Some(size), answer)
       \/ \E key \in AtlasKeys : GetOrInsertWith(key, None, "ok")
       \/ \E key \in AtlasKeys : AtlasRemove(key)
    /\ UNCHANGED <<ringVars, harnessVars, busVars, texVars, procVars, wq, integ,
                   canvas, dmabuf>>

SpecTiles == InitTiles /\ [][NextTiles]_vars

(* Claims about the tile atlas *)

\* the slots of a texture list that hold no texture, as indices
EmptySlots(list) == {p - 1 : p \in {q \in 1..Len(list.textures) : list.textures[q] = None}}

\* the indices on the free list
FreeIndices(list) == {list.free_list[j] : j \in 1..Len(list.free_list)}

\* the keys of tiles_by_key whose tile lies in the texture id
KeysIn(id) ==
    {key \in AtlasKeys : /\ IsSome(atlas.tiles_by_key[key])
                         /\ Unwrap(atlas.tiles_by_key[key]).texture_id = id}

\* the free list of every kind names exactly the empty slots, each once, and
\* the live textures of a kind have different indices
FreeListIsEmptySlots ==
    \A kind \in AtlasKinds :
        LET list == atlas.lists[kind]
        IN  /\ FreeIndices(list) = EmptySlots(list)
            /\ Cardinality(FreeIndices(list)) = Len(list.free_list)
            /\ \A p, q \in 1..Len(list.textures) :
                  ( /\ p # q
                    /\ IsSome(list.textures[p])
                    /\ IsSome(list.textures[q]) ) =>
                      Unwrap(list.textures[p]).id # Unwrap(list.textures[q]).id

\* the call made by the step removed the last key of the texture at
\* position p of the kind
RemovedLastTile(kind, p) ==
    /\ atlas'.ret.op = "remove"
    /\ p <= Len(atlas.lists[kind].textures)
    /\ IsSome(atlas.lists[kind].textures[p])
    /\ KeysIn(Unwrap(atlas.lists[kind].textures[p]).id) = {atlas'.ret.key}

\* the step created a texture at position p of the kind
CreatedTexture(kind, p) ==
    /\ p <= Len(atlas'.lists[kind].textures)
    /\ IsSome(atlas'.lists[kind].textures[p])
    /\ p > Len(atlas.lists[kind].textures) \/ atlas.lists[kind].textures[p] = None

\* C35: when remove takes away the last tile of a texture the slot is
\* emptied and its index pushed on the free list once, the next texture
\* created for the kind takes that index, and at all times the free list
\* holds exactly the empty slots and no two live textures of a kind share
\* an index
C35_TextureReuse ==
    /\ []FreeListIsEmptySlots
    /\ [][ \A kind \in AtlasKinds : \A p \in 1..MaxSlots :
              /\ RemovedLastTile(kind, p) =>
                    /\ atlas'.lists[kind].textures[p] = None
                    /\ atlas'.lists[kind].free_list
                         = Append(atlas.lists[kind].free_list, p - 1)
              /\ (CreatedTexture(kind, p) /\ atlas.lists[kind].free_list # <<>>) =>
                    p - 1 = atlas.lists[kind].free_list[Len(atlas.lists[kind].free_list)]
         ]_vars

\* C36: when the device fails while the atlas grows, get_or_insert_with
\* returns no tile and no error, records nothing for the key and leaves
\* tiles_by_key, the texture lists and the free lists as they were
C36_AllocationFailureRecoverable ==
    [][ ( /\ atlas'.ret.op = "get_or_insert_with"
          /\ atlas'.ret.gpu \in {"texture_failed", "view_failed"} ) =>
            /\ atlas'.ret.result = "no_tile"
            /\ atlas'.tiles_by_key = atlas.tiles_by_key
            /\ atlas'.lists = atlas.lists ]_vars

\* C37: in both atlases, after any get_or_insert_with and remove calls, every
\* live texture's live_atlas_keys is the number of keys of tiles_by_key whose
\* tile lies in it, and a removed key is no longer cached
C37_LiveKeysCounted ==
    /\ [](\A kind \in AtlasKinds : \A p \in 1..Len(atlas.lists[kind].textures) :
             IsSome(atlas.lists[kind].textures[p]) =>
                 Unwrap(atlas.lists[kind].textures[p]).live_atlas_keys
                   = Cardinality(KeysIn(Unwrap(atlas.lists[kind].textures[p]).id)))
    /\ [][ atlas'.ret.op = "remove" =>
               atlas'.tiles_by_key[atlas'.ret.key] = None ]_vars

====
